---- MODULE Spec2Model ----
(***************************************************************************)
(* github-release-copier: the release-copy orchestrator (copyRelease,      *)
(* listAllReleases, releaseExists, copySingleRelease), the downloader      *)
(* (downloadAssets) and the uploader (uploadAssets), as a state machine.   *)
(* Every remote call (an await in the code) is one step. The two hosting   *)
(* repositories and the staging directory are part of the state.           *)
(***************************************************************************)
EXTENDS Integers, Sequences, FiniteSets, TLC

VARIABLES
    config,       \* CopyReleaseConfig handed to copyRelease
    source,       \* source repository: its releases in listing order
    dest,         \* destination repository: its releases, id = position
    staging,      \* tempDir on disk: [exists, files], with the number of
                  \* mkdirSync calls made and the directory as it was before
    pc,           \* position of the copyRelease promise
    page,         \* paginate: next page of listReleases to request
    fetched,      \* paginate: releases accumulated so far
    allReleases,  \* copyRelease: the sorted tags returned by listAllReleases
    idx,          \* copyRelease: position of the for-of loop in allReleases
    tag,          \* copySingleRelease: its releaseTag parameter
    dl,           \* downloadAssets locals
    ul,           \* uploadAssets locals (and the Release handed over)
    calls,        \* history: every remote call issued, in order
    error,        \* the value copyRelease rejected with (NoError while none)
    proc          \* the process of the main entry: [main, at, argv, copyAll,
                  \* sortBySemver, exit, reported]

vars == <<config, source, dest, staging, pc, page, fetched, allReleases, idx,
          tag, dl, ul, calls, error, proc>>

(***************************************************************************)
(* Bounds of the model.                                                    *)
(***************************************************************************)
MaxReleases == 3      \* longest source listing drawn freely from TagPool
MaxTime == 2          \* number of distinct creation dates
MaxAssets == 2        \* most assets attached to one source release
MaxPatterns == 2      \* most patterns in an includeAssets filter
MaxPages == 2         \* listing pages spanned by the long source listing
MaxFiles == 3         \* most names in the Release handed to uploadAssets
MaxRuns == 3          \* most calls of copyRelease one after another

\* per_page requested from listReleases (GitHub's page size).
per_page == 100

\* An optional value (a TypeScript `x?: T`) is <<>> when undefined and <<v>>
\* when defined.
Undefined == <<>>

Some(v) == <<v>>

\* Error values: what a promise rejects with.  status 0 is "no status field";
\* data is the payload of the response (error.response.data), "" when the
\* error has no response; asset and cause are filled by downloadAsset's
\* wrapper only.
Err(k, st, msg) ==
    [kind |-> k, status |-> st, message |-> msg, asset |-> 0, cause |-> "",
     data |-> IF k = "HttpError" THEN msg ELSE ""]

NoError == Err("none", 0, "")

(***************************************************************************)
(* Tags.  A tag string <prefix><n1>.<n2>...<suffix> is kept as its parts:  *)
(* a digit-free prefix, the dot-separated numbers, and a suffix that does  *)
(* not begin with a digit.  "v1.10.0" is ["v", <<1,10,0>>, ""].            *)
(* EmptyTag is the empty string (falsy in JavaScript).                     *)
(***************************************************************************)
Tag(p, n, s) == [prefix |-> p, nums |-> n, suffix |-> s]

EmptyTag == Tag("", <<>>, "")

\* Tags of source listings: three that coerce to distinct versions, two that
\* do not coerce.
TagPool ==
    { Tag("v", <<1, 0, 0>>, ""),
      Tag("v", <<1, 10, 0>>, ""),
      Tag("v", <<2, 0, 0>>, ""),
      Tag("release-a", <<>>, ""),
      Tag("release-b", <<>>, "") }

\* Tags that coerce to the same version 1.0.0.
TiePool ==
    { Tag("v", <<1, 0, 0>>, ""),
      Tag("v", <<1, 0>>, ""),
      Tag("v", <<1, 0, 0>>, "-beta") }

\* created_at values: ISO dates as <<year, month, day>>, spanning a year end.
DateOf(i) == <<2022 + ((i + 10) \div 12), ((i + 10) % 12) + 1, 1>>

Dates == { DateOf(i) : i \in 1..MaxTime }

\* new Date(created_at).getTime(), in days: order-isomorphic to the epoch
\* milliseconds of the dates above.
GetTime(d) == (d[1] * 12 + (d[2] - 1)) * 31 + (d[3] - 1)

(***************************************************************************)
(* semver.valid(semver.coerce(tag)): the first run of digits is the major, *)
(* up to two following ".digits" groups the minor and patch (0 when        *)
(* absent); everything else, a pre-release suffix included, is dropped.    *)
(* A tag without any digit does not coerce (null).                         *)
(***************************************************************************)
NullVersion == <<>>

Coerce(t) ==
    IF Len(t.nums) = 0 THEN NullVersion
    ELSE << t.nums[1],
            IF Len(t.nums) >= 2 THEN t.nums[2] ELSE 0,
            IF Len(t.nums) >= 3 THEN t.nums[3] ELSE 0 >>

\* semver.compare(a, b) on coerced versions: major, then minor, then patch.
SemverCompare(a, b) ==
    IF a[1] # b[1] THEN (IF a[1] < b[1] THEN -1 ELSE 1)
    ELSE IF a[2] # b[2] THEN (IF a[2] < b[2] THEN -1 ELSE 1)
    ELSE IF a[3] # b[3] THEN (IF a[3] < b[3] THEN -1 ELSE 1)
    ELSE 0

\* The comparator of validVersions.sort.
CompareVersions(a, b) == SemverCompare(Coerce(a.tag_name), Coerce(b.tag_name))

\* The comparator of invalidVersions.sort and of the created-date sort.
CompareCreated(a, b) == GetTime(a.created_at) - GetTime(b.created_at)

(***************************************************************************)
(* Array.prototype.sort is stable: an element comes after every element    *)
(* that compares lower and after every earlier element that compares       *)
(* equal.  That is a total order on the positions of the input.            *)
(***************************************************************************)
\* Whether s[i] is placed before s[j] by a stable sort with the comparator.
VersionBefore(s, i, j) ==
    \/ CompareVersions(s[i], s[j]) < 0
    \/ CompareVersions(s[i], s[j]) = 0 /\ i < j

\* A sort by created date that places equal dates in reverse listing order.
CreatedBeforeUnstable(s, i, j) ==
    \/ CompareCreated(s[i], s[j]) < 0
    \/ CompareCreated(s[i], s[j]) = 0 /\ i > j

CreatedBefore(s, i, j) ==
    \/ CompareCreated(s[i], s[j]) < 0
    \/ CompareCreated(s[i], s[j]) = 0 /\ i < j

Indices(s) == [i \in 1..Len(s) |-> i]

\* validVersions.sort((a, b) => semver.compare(a.version, b.version))
SortByVersion(s) ==
    LET order == SortSeq(Indices(s), LAMBDA i, j : VersionBefore(s, i, j))
    IN  [r \in 1..Len(s) |-> s[order[r]]]

\* sort((a, b) => new Date(a.created_at).getTime() - new Date(b.created_at).getTime())
SortByCreated(s) ==
    LET order == SortSeq(Indices(s), LAMBDA i, j : CreatedBefore(s, i, j))
    IN  [r \in 1..Len(s) |-> s[order[r]]]

\* The split of the releases into validVersions and invalidVersions.
Coerces(r) == Coerce(r.tag_name) # NullVersion

ValidVersions(s) == SelectSeq(s, Coerces)

InvalidVersions(s) == SelectSeq(s, LAMBDA r : ~Coerces(r))

TagNames(s) == [i \in 1..Len(s) |-> s[i].tag_name]

\* The listing sorted by created date whatever sortBySemver says.
SortReleasesByCreated(releases, sortBySemver) ==
    TagNames(SortByCreated(releases))

\* The semver branch with the two groups concatenated the other way round.
SortReleasesInvalidFirst(releases, sortBySemver) ==
    IF sortBySemver
    THEN TagNames(SortByCreated(InvalidVersions(releases))
                    \o SortByVersion(ValidVersions(releases)))
    ELSE TagNames(SortByCreated(releases))

\* The sort of listAllReleases, applied to the releases paginate returned.
SortReleases(releases, sortBySemver) ==
    IF sortBySemver
    THEN TagNames(SortByVersion(ValidVersions(releases)))
           \o TagNames(SortByCreated(InvalidVersions(releases)))
    ELSE TagNames(SortByCreated(releases))

(***************************************************************************)
(* Regular expressions.  A pattern is a sequence of tokens: "^" and "$"    *)
(* anchor, "." matches any character, "\\." a literal dot, "(" is an       *)
(* unterminated group (new RegExp throws), any other token is a literal    *)
(* character.  Names and bodies are sequences of characters.               *)
(***************************************************************************)
Compiles(p) == \A i \in 1..Len(p) : p[i] # "("

Bol(p) == Len(p) > 0 /\ p[1] = "^"

Eol(p) == Len(p) > 0 /\ p[Len(p)] = "$"

Core(p) ==
    SubSeq(p, (IF Bol(p) THEN 2 ELSE 1), (IF Eol(p) THEN Len(p) - 1 ELSE Len(p)))

TokMatch(tok, c) ==
    IF tok = "." THEN TRUE
    ELSE IF tok = "\\." THEN c = "."
    ELSE tok = c

\* The compiled pattern matches s at position i (1-based).
MatchAt(p, s, i) ==
    LET core == Core(p)
    IN  /\ i + Len(core) - 1 <= Len(s)
        /\ \A j \in 1..Len(core) : TokMatch(core[j], s[i + j - 1])
        /\ Bol(p) => i = 1
        /\ Eol(p) => i + Len(core) - 1 = Len(s)

\* fileName.match(new RegExp(p)) is non-null: an unanchored search.
Matches(p, s) == \E i \in 1..(Len(s) + 1) : MatchAt(p, s, i)

\* The text String.prototype.replace inserts for a match: the replacement is
\* a sequence of tokens, "$$" inserts a dollar sign, "$&" the matched text,
\* any other token is a literal character.
RECURSIVE Expand(_, _)
Expand(repl, matched) ==
    IF repl = <<>> THEN <<>>
    ELSE (IF Head(repl) = "$$" THEN <<"$">>
          ELSE IF Head(repl) = "$&" THEN matched
          ELSE <<Head(repl)>>) \o Expand(Tail(repl), matched)

\* body.replace without the g flag: the first match only.
RECURSIVE ReplaceFromFirstOnly(_, _, _, _)
ReplaceFromFirstOnly(p, s, i, repl) ==
    IF i > Len(s) + 1 THEN <<>>
    ELSE IF MatchAt(p, s, i)
         THEN Expand(repl, SubSeq(s, i, i + Len(Core(p)) - 1))
                  \o SubSeq(s, i + Len(Core(p)), Len(s))
         ELSE (IF i <= Len(s) THEN <<s[i]>> ELSE <<>>)
                  \o ReplaceFromFirstOnly(p, s, i + 1, repl)

\* body.replace(new RegExp(p, 'g'), repl): every non-overlapping match, left
\* to right; after an empty match the scan advances by one character.
RECURSIVE ReplaceFrom(_, _, _, _)
ReplaceFrom(p, s, i, repl) ==
    IF i > Len(s) + 1 THEN <<>>
    ELSE IF MatchAt(p, s, i)
         THEN IF Len(Core(p)) = 0
              THEN Expand(repl, <<>>)
                        \o (IF i <= Len(s) THEN <<s[i]>> ELSE <<>>)
                        \o ReplaceFrom(p, s, i + 1, repl)
              ELSE Expand(repl, SubSeq(s, i, i + Len(Core(p)) - 1))
                        \o ReplaceFrom(p, s, i + Len(Core(p)), repl)
         ELSE (IF i <= Len(s) THEN <<s[i]>> ELSE <<>>)
                  \o ReplaceFrom(p, s, i + 1, repl)

\* processBody returning the body when no replacement is given.
ProcessBodyNeedsReplacement(body, regex, replacement) ==
    IF regex = Undefined \/ regex[1] = <<>> THEN body
    ELSE IF replacement = Undefined \/ replacement[1] = <<>> THEN body
    ELSE IF Compiles(regex[1]) THEN ReplaceFrom(regex[1], body, 1, replacement[1])
    ELSE body

\* processBody returning the empty string when the pattern does not compile.
ProcessBodyEmptyOnInvalid(body, regex, replacement) ==
    IF regex = Undefined \/ regex[1] = <<>> THEN body
    ELSE LET repl == IF replacement = Undefined THEN <<>> ELSE replacement[1]
         IN  IF Compiles(regex[1]) THEN ReplaceFrom(regex[1], body, 1, repl)
             ELSE <<>>

\* processBody(body, regex, replacement) of the copy orchestrator.
ProcessBody(body, regex, replacement) ==
    IF regex = Undefined \/ regex[1] = <<>> THEN body
    ELSE LET repl == IF replacement = Undefined THEN <<>> ELSE replacement[1]
         IN  IF Compiles(regex[1]) THEN ReplaceFrom(regex[1], body, 1, repl)
             ELSE body

\* The filter test with the try/catch around the whole of some: a pattern
\* that does not compile ends the test with false.
SomeMatchesAbortOnInvalid(assetFilter, fileName) ==
    /\ \A i \in 1..Len(assetFilter) : Compiles(assetFilter[i])
    /\ \E i \in 1..Len(assetFilter) : Matches(assetFilter[i], fileName)

\* The filter test of downloadAssets: assetFilter.some(filter => { try {
\* return fileName.match(new RegExp(filter)) } catch { return false } }).
SomeMatches(assetFilter, fileName) ==
    \E i \in 1..Len(assetFilter) :
        Compiles(assetFilter[i]) /\ Matches(assetFilter[i], fileName)

\* The filter test with every in place of some.
IgnoredUnlessEvery(assetFilter, fileName) ==
    /\ assetFilter # Undefined
    /\ fileName # <<>>
    /\ ~\A i \in 1..Len(assetFilter[1]) :
           Compiles(assetFilter[1][i]) /\ Matches(assetFilter[1][i], fileName)

\* Whether downloadAssets ignores the asset ("Ignoring asset").
Ignored(assetFilter, fileName) ==
    /\ assetFilter # Undefined
    /\ fileName # <<>>
    /\ ~SomeMatches(assetFilter[1], fileName)

\* downloadAssets without the test of the name.
HasNoNameUnchecked(fileName) == FALSE

\* The test !fileName of downloadAssets ("has no name, skipping"): fileName
\* is assetResponse?.name || '', empty when the name is missing or empty.
HasNoName(fileName) == fileName = <<>>

(***************************************************************************)
(* The hosting API as the code uses it.                                    *)
(***************************************************************************)
\* Transport failures a remote call may end with instead of its answer.
Faults ==
    { Err("HttpError", 429, "Rate limit exceeded"),
      Err("HttpError", 500, "Server error") }

NotFound == Err("HttpError", 404, "Not Found")

AlreadyExists == Err("HttpError", 422, "Validation Failed")

Truthy(opt) == opt # Undefined /\ opt[1] # FALSE

TruthyTag(opt) == opt # Undefined /\ opt[1] # EmptyTag

TruthyDir(opt) == opt # Undefined /\ opt[1] # ""

Min(a, b) == IF a < b THEN a ELSE b

\* One page of listReleases, and whether the response links to a next page.
PageOf(p) == SubSeq(source, (p - 1) * per_page + 1, Min(p * per_page, Len(source)))

HasNextPage(p) == p * per_page < Len(source)

IndexOfTag(repo, t) ==
    IF \E i \in 1..Len(repo) : repo[i].tag_name = t
    THEN CHOOSE i \in 1..Len(repo) : repo[i].tag_name = t
    ELSE 0

\* The bytes of a source asset: they identify the release and the asset.
ContentOf(t, a) == [tag |-> t, id |-> a.id]

\* A record of one call: a remote request (side "source" or "dest") with the
\* error it ended with (NoError for an answer), or the invocation of
\* downloadAssets / uploadAssets (side "local") with the Release handed over.
Call(op, side, t, arg, res) ==
    [op |-> op, side |-> side, tag |-> t, arg |-> arg, res |-> res,
     body |-> <<>>, assets |-> <<>>]

Invoke(op, t, release) ==
    [op |-> op, side |-> "local", tag |-> t, arg |-> 0, res |-> NoError,
     body |-> release.body, assets |-> release.assets]

NoRelease == [body |-> <<>>, assets |-> <<>>]

DlIdle == [id |-> 0, body |-> Undefined, assets |-> <<>>, k |-> 0,
           includedAssets |-> <<>>, fileName |-> <<>>, result |-> Undefined]

UlIdle == [release |-> NoRelease, id |-> 0, u |-> 0]

(***************************************************************************)
(* copyRelease's position after the code that follows a step, up to the    *)
(* next await.                                                             *)
(***************************************************************************)
\* The for-of loop over allReleases at position i.
LoopPc(tags, i) == IF i > Len(tags) THEN "resolved" ELSE "releaseExists"

\* sortBySemver = config.sortBySemver !== false
SortBySemver == ~(config.sortBySemver # Undefined /\ config.sortBySemver[1] = FALSE)

\* A single listReleases request: the first page only.
PaginateFirstPageOnly(p) == FALSE

\* connection.paginate requests the next page while the response links to one.
Paginate(p) == HasNextPage(p)

\* listAllReleases returning the coerced version of every tag that has one
\* (v1.0 as 1.0.0).
ListAllReleasesCoerced(all) ==
    LET tags == SortReleases(all, SortBySemver)
    IN  [i \in DOMAIN tags |->
            IF Coerce(tags[i]) # NullVersion THEN Tag("", Coerce(tags[i]), "")
            ELSE tags[i]]

\* listAllReleases returning every fetched release twice.
ListAllReleasesTwice(all) == SortReleases(all \o all, SortBySemver)

\* listAllReleases's result for the fetched releases.
ListAllReleases(all) == SortReleases(all, SortBySemver)

\* ValidateConfig without its first check.
ValidateConfigNeitherOnly ==
    IF ~Truthy(config.copyAllReleases) /\ ~TruthyTag(config.releaseTag)
    THEN Err("ConfigError", 0, "Must specify either copyAllReleases or releaseTag.")
    ELSE NoError

\* The validation that opens copyRelease: the error it throws, or NoError.
ValidateConfig ==
    IF Truthy(config.copyAllReleases) /\ TruthyTag(config.releaseTag)
    THEN Err("ConfigError", 0,
             "Cannot specify both copyAllReleases and releaseTag. Choose one or the other.")
    ELSE IF ~Truthy(config.copyAllReleases) /\ ~TruthyTag(config.releaseTag)
    THEN Err("ConfigError", 0, "Must specify either copyAllReleases or releaseTag.")
    ELSE NoError

\* releaseExists returning the negated answer.
ReleaseExistsNegated(resp) ==
    IF resp = NoError THEN "false"
    ELSE IF resp.status = 404 THEN "true"
    ELSE "throw"

\* releaseExists returning false for every error, not only for 404.
ReleaseExistsSwallow(resp) ==
    IF resp = NoError THEN "true" ELSE "false"

\* releaseExists: what it does with the answer to getReleaseByTag.
ReleaseExists(resp) ==
    IF resp = NoError THEN "true"
    ELSE IF resp.status = 404 THEN "false"
    ELSE "throw"

\* downloadAsset's catch: the error is replaced by a new Error naming the asset.
WrapDownloadError(id, e) ==
    [kind |-> "Error", status |-> 0, message |-> "Error downloading asset",
     asset |-> id, cause |-> e.message, data |-> ""]

\* copySingleRelease starting every copy from a fresh, empty tempDir.
MkTempDirFresh ==
    [staging EXCEPT !.exists = TRUE, !.files = <<>>, !.mkdirs = @ + 1]

\* copySingleRelease up to its first await: create tempDir when absent, then
\* call downloadAssets, which requests the source release.
MkTempDir ==
    IF staging.exists THEN staging
    ELSE [staging EXCEPT !.exists = TRUE, !.mkdirs = @ + 1]

\* downloadAssets returning the names of every listed asset.
DownloadedAllListed(d) ==
    [assets |-> [i \in 1..Len(d.assets) |-> d.assets[i].name],
     body |-> IF d.body = Undefined THEN <<>> ELSE d.body[1]]

\* downloadAssets's return value: { assets: includedAssets, body:
\* release.data.body ?? "" }.
Downloaded(d) ==
    [assets |-> d.includedAssets,
     body |-> IF d.body = Undefined THEN <<>> ELSE d.body[1]]

\* copySingleRelease replacing in the body without looking at the length of
\* bodyReplaceRegex: body.replace(new RegExp(regex ?? "", "g"), with ?? "").
ReleaseOfUnguarded(d) ==
    LET release == Downloaded(d)
        regex == IF config.bodyReplaceRegex = Undefined THEN <<>>
                 ELSE config.bodyReplaceRegex[1]
        repl == IF config.bodyReplaceWith = Undefined THEN <<>>
                ELSE config.bodyReplaceWith[1]
    IN  [release EXCEPT !.body =
            IF Compiles(regex) THEN ReplaceFrom(regex, release.body, 1, repl)
            ELSE release.body]

\* copySingleRelease building the transformed Release with the names in
\* the reverse order.
ReleaseOfReversed(d) ==
    LET release == Downloaded(d)
        n == Len(release.assets)
    IN  IF config.bodyReplaceRegex # Undefined /\ Len(config.bodyReplaceRegex[1]) > 0
        THEN [assets |-> [i \in 1..n |-> release.assets[n + 1 - i]],
              body |-> ProcessBody(release.body, config.bodyReplaceRegex,
                                   config.bodyReplaceWith)]
        ELSE release

\* copySingleRelease transforming the body in single-tag mode only.
ReleaseOfSingleOnly(d) ==
    LET release == Downloaded(d)
    IN  [release EXCEPT !.body =
            IF /\ config.bodyReplaceRegex # Undefined
               /\ Len(config.bodyReplaceRegex[1]) > 0
               /\ ~Truthy(config.copyAllReleases)
            THEN ProcessBody(release.body, config.bodyReplaceRegex,
                             config.bodyReplaceWith)
            ELSE release.body]

\* The release copySingleRelease hands to uploadAssets: downloadAssets's
\* return value, its body through processBody when bodyReplaceRegex has a
\* length.
ReleaseOf(d) ==
    LET release == Downloaded(d)
    IN  [release EXCEPT !.body =
            IF config.bodyReplaceRegex # Undefined
               /\ Len(config.bodyReplaceRegex[1]) > 0
            THEN ProcessBody(release.body, config.bodyReplaceRegex,
                             config.bodyReplaceWith)
            ELSE release.body]

\* copyRelease returning after the first release it has copied.
AfterCopyReturn == "resolved"

\* The position after a completed copySingleRelease.
AfterCopy == IF Truthy(config.copyAllReleases)
             THEN LoopPc(allReleases, idx + 1) ELSE "resolved"

\* The loop body of copyRelease wrapped in a try/catch that logs the error
\* and goes on with the loop.
RejectCaughtInLoop(e) ==
    /\ pc' = IF Truthy(config.copyAllReleases)
                 /\ pc \notin {"start", "listReleases", "releaseExists"}
              THEN "releaseExists" ELSE "rejected"
    /\ error' = e

\* The loop body of downloadAssets wrapped in a try/catch that logs the
\* error and goes on with the loop.
RejectCaughtInAssetLoop(e) ==
    /\ pc' = IF pc \in {"fetchAssetDetails", "downloadAsset", "pipeline"}
              THEN "fetchAssetDetails" ELSE "rejected"
    /\ error' = e

\* Every awaited step attempted a second time when it fails the first time.
RejectAfterRetry(e) ==
    /\ pc' = IF error = NoError THEN pc ELSE "rejected"
    /\ error' = e

\* An error thrown in an awaited step: nothing catches it, so every
\* enclosing loop and function is left and copyRelease rejects with it.
Reject(e) ==
    /\ pc' = "rejected"
    /\ error' = e


(***************************************************************************)
(* Steps.  Each is one awaited operation with the code that follows it up  *)
(* to the next await.                                                      *)
(***************************************************************************)
\* copySingleRelease(config, t) up to downloadAssets's first request.
BeginCopy(t, log) ==
    /\ staging' = MkTempDir
    /\ tag' = t
    /\ dl' = DlIdle
    /\ ul' = UlIdle
    /\ calls' = Append(log, Invoke("downloadAssets", t, NoRelease))
    /\ pc' = "getReleaseByTag"

\* copyRelease is called: validation, then the first request of either mode.
Start ==
    /\ proc.at = "copyRelease"
    /\ pc = "start"
    /\ IF ValidateConfig # NoError
       THEN /\ Reject(ValidateConfig)
            /\ UNCHANGED <<staging, page, tag, dl, ul, calls>>
       ELSE IF Truthy(config.copyAllReleases)
       THEN /\ pc' = "listReleases"
            /\ page' = 1
            /\ UNCHANGED <<staging, tag, dl, ul, calls, error>>
       ELSE /\ BeginCopy(config.releaseTag[1], calls)
            /\ UNCHANGED <<page, error>>
    /\ UNCHANGED <<proc, config, source, dest, fetched, allReleases, idx>>

\* listAllReleases: one page of connection.paginate(listReleases); after the
\* last page the releases are sorted and the loop of copyRelease begins.
ListReleases ==
    /\ pc = "listReleases"
    /\ \/ LET all == fetched \o PageOf(page)
          IN  /\ fetched' = all
              /\ calls' = Append(calls, Call("listReleases", "source", EmptyTag, page, NoError))
              /\ IF Paginate(page)
                 THEN /\ page' = page + 1
                      /\ UNCHANGED <<pc, allReleases, idx>>
                 ELSE /\ allReleases' = ListAllReleases(all)
                      /\ idx' = 1
                      /\ pc' = LoopPc(ListAllReleases(all), 1)
                      /\ page' = page
              /\ UNCHANGED error
       \/ \E e \in Faults :
              /\ Reject(e)
              /\ calls' = Append(calls, Call("listReleases", "source", EmptyTag, page, e))
              /\ UNCHANGED <<page, fetched, allReleases, idx>>
    /\ UNCHANGED <<proc, config, source, dest, staging, tag, dl, ul>>

\* The destination's answer to getReleaseByTag, transport faults apart.
ExistsAnswer(t) == IF IndexOfTag(dest, t) # 0 THEN NoError ELSE NotFound

\* releaseExists for the loop's current tag, then skip, copy or reject.
CheckExists ==
    /\ pc = "releaseExists"
    /\ \E resp \in {ExistsAnswer(allReleases[idx])} \cup Faults :
          LET t == allReleases[idx]
              log == Append(calls, Call("getReleaseByTag", "dest", t, 0, resp))
              r == ReleaseExists(resp)
          IN  IF r = "true"
              THEN /\ idx' = idx + 1
                   /\ pc' = LoopPc(allReleases, idx + 1)
                   /\ calls' = log
                   /\ UNCHANGED <<staging, tag, dl, ul, error>>
              ELSE IF r = "false"
              THEN /\ BeginCopy(t, log)
                   /\ UNCHANGED <<idx, error>>
              ELSE /\ Reject(resp)
                   /\ calls' = log
                   /\ UNCHANGED <<idx, staging, tag, dl, ul>>
    /\ UNCHANGED <<proc, config, source, dest, page, fetched, allReleases>>

\* The for-of loop over assets.data at the position d.k.  Past the last asset
\* downloadAssets returns: to its caller when it was called on its own, else
\* to copySingleRelease, which transforms the body and calls uploadAssets,
\* whose first request is createRelease.
AssetLoop(d, log) ==
    /\ IF d.k > Len(d.assets) /\ proc.at = "downloadAssets"
       THEN /\ dl' = [d EXCEPT !.result = Some(Downloaded(d))]
            /\ ul' = ul
            /\ calls' = log
            /\ pc' = "resolved"
       ELSE IF d.k > Len(d.assets)
       THEN /\ dl' = [d EXCEPT !.result = Some(Downloaded(d))]
            /\ ul' = [UlIdle EXCEPT !.release = ReleaseOf(d)]
            /\ calls' = Append(log, Invoke("uploadAssets", tag, ReleaseOf(d)))
            /\ pc' = "createRelease"
       ELSE /\ dl' = d
            /\ ul' = ul
            /\ calls' = log
            /\ pc' = "fetchAssetDetails"

\* downloadAssets catching the not-found answer and returning a Release
\* without assets and with an empty body.
GetReleaseSwallowNotFound ==
    /\ pc = "getReleaseByTag"
    /\ \E resp \in {IF IndexOfTag(source, tag) # 0 THEN NoError ELSE NotFound}
                      \cup Faults :
          LET log == Append(calls, Call("getReleaseByTag", "source", tag, 0, resp))
          IN  IF resp = NoError
              THEN /\ dl' = [DlIdle EXCEPT !.id = IndexOfTag(source, tag),
                                           !.body = source[IndexOfTag(source, tag)].body]
                   /\ pc' = "listReleaseAssets"
                   /\ calls' = log
                   /\ UNCHANGED <<error, ul>>
              ELSE IF resp = NotFound
              THEN /\ AssetLoop([DlIdle EXCEPT !.k = 1], log)
                   /\ UNCHANGED error
              ELSE /\ Reject(resp)
                   /\ calls' = log
                   /\ UNCHANGED <<dl, ul>>
    /\ UNCHANGED <<proc, config, source, dest, staging, page, fetched, allReleases,
                   idx, tag>>

\* downloadAssets: the source release is looked up by tag.
GetRelease ==
    /\ pc = "getReleaseByTag"
    /\ \E resp \in {IF IndexOfTag(source, tag) # 0 THEN NoError ELSE NotFound}
                      \cup Faults :
          /\ calls' = Append(calls, Call("getReleaseByTag", "source", tag, 0, resp))
          /\ IF resp = NoError
             THEN /\ dl' = [DlIdle EXCEPT !.id = IndexOfTag(source, tag),
                                          !.body = source[IndexOfTag(source, tag)].body]
                  /\ pc' = "listReleaseAssets"
                  /\ UNCHANGED error
             ELSE /\ Reject(resp)
                  /\ UNCHANGED dl
    /\ UNCHANGED <<proc, config, source, dest, staging, page, fetched, allReleases,
                   idx, tag, ul>>

\* downloadAssets listing the assets with the destination's credential and
\* owner/repo.
ListAssetsAtDest ==
    /\ pc = "listReleaseAssets"
    /\ \/ /\ AssetLoop([dl EXCEPT !.assets = source[dl.id].assets, !.k = 1],
                       Append(calls, Call("listReleaseAssets", "dest", tag, 0, NoError)))
          /\ UNCHANGED error
       \/ \E e \in Faults :
              /\ Reject(e)
              /\ calls' = Append(calls, Call("listReleaseAssets", "dest", tag, 0, e))
              /\ UNCHANGED <<dl, ul>>
    /\ UNCHANGED <<proc, config, source, dest, staging, page, fetched, allReleases,
                   idx, tag>>

\* downloadAssets: the release's assets are listed.
ListAssets ==
    /\ pc = "listReleaseAssets"
    /\ \/ /\ AssetLoop([dl EXCEPT !.assets = source[dl.id].assets, !.k = 1],
                       Append(calls, Call("listReleaseAssets", "source", tag, 0, NoError)))
          /\ UNCHANGED error
       \/ \E e \in Faults :
              /\ Reject(e)
              /\ calls' = Append(calls, Call("listReleaseAssets", "source", tag, 0, e))
              /\ UNCHANGED <<dl, ul>>
    /\ UNCHANGED <<proc, config, source, dest, staging, page, fetched, allReleases,
                   idx, tag>>

\* downloadAssets: fetchAssetDetails for the current asset, then the filter.
FetchDetails ==
    /\ pc = "fetchAssetDetails"
    /\ LET a == dl.assets[dl.k]
       IN  \/ LET fileName == a.name
                  log == Append(calls, Call("getReleaseAsset", "source", tag, a.id, NoError))
              IN  /\ IF Ignored(config.includeAssets, fileName) \/ HasNoName(fileName)
                     THEN AssetLoop([dl EXCEPT !.k = dl.k + 1, !.fileName = fileName], log)
                     ELSE /\ dl' = [dl EXCEPT !.fileName = fileName,
                                       !.includedAssets = Append(@, fileName)]
                          /\ calls' = log
                          /\ pc' = "downloadAsset"
                          /\ ul' = ul
                  /\ UNCHANGED error
           \/ \E e \in Faults :
                  /\ Reject(e)
                  /\ calls' = Append(calls, Call("getReleaseAsset", "source", tag, a.id, e))
                  /\ UNCHANGED <<dl, ul>>
    /\ UNCHANGED <<proc, config, source, dest, staging, page, fetched, allReleases,
                   idx, tag>>

\* downloadAssets calling pipeline without await: the loop goes on to the
\* next asset while the stream is still being written.
DownloadAssetUnawaited ==
    /\ pc = "downloadAsset"
    /\ LET a == dl.assets[dl.k]
       IN  \/ /\ AssetLoop([dl EXCEPT !.k = dl.k + 1],
                            Append(calls, Call("getReleaseAssetContent", "source",
                                               tag, a.id, NoError)))
              /\ UNCHANGED error
           \/ \E e \in Faults :
                  /\ Reject(WrapDownloadError(a.id, e))
                  /\ calls' = Append(calls, Call("getReleaseAssetContent", "source", tag, a.id, e))
                  /\ UNCHANGED <<dl, ul>>
    /\ UNCHANGED <<proc, config, source, dest, staging, page, fetched, allReleases,
                   idx, tag>>

\* downloadAssets: downloadAsset requests the asset's content as a stream.
DownloadAsset ==
    /\ pc = "downloadAsset"
    /\ LET a == dl.assets[dl.k]
       IN  \/ LET log == Append(calls, Call("getReleaseAssetContent", "source", tag, a.id, NoError))
              IN  /\ IF TruthyDir(config.tempDir)
                     THEN /\ pc' = "pipeline"
                          /\ calls' = log
                          /\ UNCHANGED <<dl, ul>>
                     ELSE AssetLoop([dl EXCEPT !.k = dl.k + 1], log)
                  /\ UNCHANGED error
           \/ \E e \in Faults :
                  /\ Reject(WrapDownloadError(a.id, e))
                  /\ calls' = Append(calls, Call("getReleaseAssetContent", "source", tag, a.id, e))
                  /\ UNCHANGED <<dl, ul>>
    /\ UNCHANGED <<proc, config, source, dest, staging, page, fetched, allReleases,
                   idx, tag>>

\* What pipeline leaves on disk when it fails: a truncated file.
Partial(t) == [tag |-> t, id |-> 0]

\* downloadAssets keeping a file of the same name that is in outputDir
\* already (a write stream opened with the flag wx, its failure ignored).
PipelineKeepExisting ==
    /\ pc = "pipeline"
    /\ LET a == dl.assets[dl.k]
       IN  \/ /\ staging' = [staging EXCEPT
                               !.files = @ @@ (dl.fileName :> ContentOf(tag, a))]
              /\ AssetLoop([dl EXCEPT !.k = dl.k + 1], calls)
              /\ UNCHANGED error
           \/ /\ staging' = [staging EXCEPT
                               !.files = (dl.fileName :> Partial(tag)) @@ @]
              /\ Reject(Err("IOError", 0, "stream failed"))
              /\ UNCHANGED <<dl, ul, calls>>
    /\ UNCHANGED <<proc, config, source, dest, page, fetched, allReleases, idx, tag>>

\* downloadAssets: pipeline(assetStream, createWriteStream(outputDir/fileName)).
Pipeline ==
    /\ pc = "pipeline"
    /\ LET a == dl.assets[dl.k]
       IN  \/ /\ staging' = [staging EXCEPT
                               !.files = (dl.fileName :> ContentOf(tag, a)) @@ @]
              /\ AssetLoop([dl EXCEPT !.k = dl.k + 1], calls)
              /\ UNCHANGED error
           \/ /\ staging' = [staging EXCEPT
                               !.files = (dl.fileName :> Partial(tag)) @@ @]
              /\ Reject(Err("IOError", 0, "stream failed"))
              /\ UNCHANGED <<dl, ul, calls>>
    /\ UNCHANGED <<proc, config, source, dest, page, fetched, allReleases, idx, tag>>

\* The loop of uploadAssets without the test of inputDir: every name is read
\* from the directory, whatever inputDir is.
UploadLoopNoDirCheck(uu, fs) ==
    IF uu.u > Len(uu.release.assets)
    THEN /\ ul' = uu
         /\ pc' = AfterCopy
         /\ idx' = IF Truthy(config.copyAllReleases) THEN idx + 1 ELSE idx
         /\ UNCHANGED error
    ELSE IF uu.release.assets[uu.u] \in DOMAIN fs.files
    THEN /\ ul' = uu
         /\ pc' = "uploadReleaseAsset"
         /\ UNCHANGED <<idx, error>>
    ELSE /\ ul' = uu
         /\ Reject(Err("IOError", 0, "ENOENT"))
         /\ UNCHANGED idx

\* The for-of loop over release.assets at position uu.u, files read from the
\* staging directory fs.  Past the last asset uploadAssets and
\* copySingleRelease return, and copyRelease goes on to the next tag or
\* resolves.
UploadLoop(uu, fs) ==
    IF ~TruthyDir(config.tempDir) \/ uu.u > Len(uu.release.assets)
    THEN /\ ul' = uu
         /\ pc' = AfterCopy
         /\ idx' = IF Truthy(config.copyAllReleases) THEN idx + 1 ELSE idx
         /\ UNCHANGED error
    ELSE IF uu.release.assets[uu.u] \in DOMAIN fs.files
    THEN /\ ul' = uu
         /\ pc' = "uploadReleaseAsset"
         /\ UNCHANGED <<idx, error>>
    ELSE /\ ul' = uu
         /\ Reject(Err("IOError", 0, "ENOENT"))
         /\ UNCHANGED idx

\* A destination that accepts a second release of the same tag.
CreateAnswerAllowsDuplicate(t) == NoError

\* The destination's answer to createRelease, transport faults apart.
CreateAnswer(t) == IF IndexOfTag(dest, t) # 0 THEN AlreadyExists ELSE NoError

\* uploadAssets creating the release without release.body.
CreateReleaseNoBody ==
    /\ pc = "createRelease"
    /\ \E resp \in {CreateAnswer(tag)} \cup Faults :
          /\ calls' = Append(calls, Call("createRelease", "dest", tag, 0, resp))
          /\ IF resp = NoError
             THEN /\ dest' = Append(dest, [tag_name |-> tag, body |-> <<>>,
                                           assets |-> <<>>])
                  /\ UploadLoop([ul EXCEPT !.id = Len(dest) + 1, !.u = 1], staging)
             ELSE /\ Reject(resp)
                  /\ UNCHANGED <<dest, ul, idx>>
    /\ UNCHANGED <<proc, config, source, staging, page, fetched, allReleases, tag, dl>>

\* uploadAssets: the destination release is created.
CreateRelease ==
    /\ pc = "createRelease"
    /\ \E resp \in {CreateAnswer(tag)} \cup Faults :
          /\ calls' = Append(calls, [Call("createRelease", "dest", tag, 0, resp)
                                       EXCEPT !.body = ul.release.body])
          /\ IF resp = NoError
             THEN /\ dest' = Append(dest, [tag_name |-> tag,
                                           body |-> ul.release.body,
                                           assets |-> <<>>])
                  /\ UploadLoop([ul EXCEPT !.id = Len(dest) + 1, !.u = 1], staging)
             ELSE /\ Reject(resp)
                  /\ UNCHANGED <<dest, ul, idx>>
    /\ UNCHANGED <<proc, config, source, staging, page, fetched, allReleases, tag, dl>>

\* uploadAssets with the upload in a try/catch that logs the error and goes
\* on with the next asset.
UploadAssetSwallow ==
    /\ pc = "uploadReleaseAsset"
    /\ LET name == ul.release.assets[ul.u]
       IN  \E resp \in {NoError} \cup Faults :
              /\ calls' = Append(calls, [Call("uploadReleaseAsset", "dest", tag, ul.id, resp)
                                           EXCEPT !.assets = <<name>>])
              /\ dest' = IF resp = NoError
                         THEN [dest EXCEPT ![ul.id].assets =
                                  Append(@, [name |-> name,
                                             content |-> staging.files[name]])]
                         ELSE dest
              /\ UploadLoop([ul EXCEPT !.u = ul.u + 1], staging)
    /\ UNCHANGED <<proc, config, source, staging, page, fetched, allReleases, tag, dl>>

\* uploadAssets: one staged file is uploaded to the created release.
UploadAsset ==
    /\ pc = "uploadReleaseAsset"
    /\ LET name == ul.release.assets[ul.u]
       IN  \E resp \in {NoError} \cup Faults :
              /\ calls' = Append(calls, [Call("uploadReleaseAsset", "dest", tag, ul.id, resp)
                                           EXCEPT !.assets = <<name>>])
              /\ IF resp = NoError
                 THEN /\ dest' = [dest EXCEPT ![ul.id].assets =
                                     Append(@, [name |-> name,
                                                content |-> staging.files[name]])]
                      /\ UploadLoop([ul EXCEPT !.u = ul.u + 1], staging)
                 ELSE /\ Reject(resp)
                      /\ UNCHANGED <<dest, ul, idx>>
    /\ UNCHANGED <<proc, config, source, staging, page, fetched, allReleases, tag, dl>>

(***************************************************************************)
(* The main entry: the command-line check, the configuration built from    *)
(* the environment, the call of copyRelease and the exit code.             *)
(***************************************************************************)
\* The configuration the main entry builds from argv and the environment.
MainConfig ==
    [releaseTag |-> IF proc.copyAll THEN Undefined ELSE proc.argv,
     copyAllReleases |-> Some(proc.copyAll),
     sortBySemver |-> Some(proc.sortBySemver # Some("false")),
     includeAssets |-> Undefined, bodyReplaceRegex |-> Undefined,
     bodyReplaceWith |-> Undefined, tempDir |-> Some("./temp")]

\* The two command-line checks: the exit code they end the process with, or
\* Undefined when both pass.  argv is Undefined when process.argv.length < 3.
ModeCheck ==
    IF ~proc.copyAll /\ proc.argv = Undefined THEN Some(1)
    ELSE IF proc.copyAll /\ TruthyTag(proc.argv) THEN Some(1)
    ELSE Undefined

\* A catch handler that reports the error and leaves the exit code alone.
ExitCodeAlwaysZero(outcome) == 0

\* The handlers of copyRelease(config).then(...).catch(...).
ExitCode(outcome) == IF outcome = "resolved" THEN 0 ELSE 1

\* The main entry up to the call of copyRelease.
Main ==
    /\ proc.at = "main"
    /\ IF ModeCheck # Undefined
       THEN /\ proc' = [proc EXCEPT !.at = "exited", !.exit = ModeCheck]
            /\ UNCHANGED config
       ELSE /\ proc' = [proc EXCEPT !.at = "copyRelease"]
            /\ config' = MainConfig
    /\ UNCHANGED <<source, dest, staging, pc, page, fetched, allReleases, idx,
                   tag, dl, ul, calls, error>>

\* What the catch handler writes to the diagnostic stream: error.message,
\* error.status when it is truthy, error.response.data when there is one.
Report(e) == [message |-> e.message, asset |-> e.asset, cause |-> e.cause,
              status |-> e.status, data |-> e.data]

\* The promise of copyRelease settles and the handler ends the process.
Exit ==
    /\ proc.main
    /\ proc.at = "copyRelease"
    /\ pc \in {"resolved", "rejected"}
    /\ proc' = [proc EXCEPT !.at = "exited", !.exit = Some(ExitCode(pc)),
                            !.reported = IF pc = "rejected" THEN Some(Report(error))
                                         ELSE Undefined]
    /\ UNCHANGED <<config, source, dest, staging, pc, page, fetched,
                   allReleases, idx, tag, dl, ul, calls, error>>

\* The steps of copyRelease.
CopyStep ==
    \/ Start
    \/ ListReleases
    \/ CheckExists
    \/ GetRelease
    \/ ListAssets
    \/ FetchDetails
    \/ DownloadAsset
    \/ Pipeline
    \/ CreateRelease
    \/ UploadAsset

Next ==
    \/ CopyStep
    \/ Main
    \/ Exit

\* The caller calls copyRelease again with the same configuration once the
\* promise of the call before has settled: the source, the destination and
\* the staging directory are as that call left them, everything local to
\* the call starts anew.  proc remembers how the call before ended and the
\* destination this call starts from.
Rerun ==
    /\ proc.at = "copyRelease"
    /\ pc \in {"resolved", "rejected"}
    /\ proc.run < MaxRuns
    /\ proc' = [proc EXCEPT !.run = @ + 1, !.prev = pc, !.before = dest]
    /\ pc' = "start"
    /\ page' = 0
    /\ fetched' = <<>>
    /\ allReleases' = <<>>
    /\ idx' = 0
    /\ tag' = EmptyTag
    /\ dl' = DlIdle
    /\ ul' = UlIdle
    /\ calls' = <<>>
    /\ error' = NoError
    /\ UNCHANGED <<config, source, dest, staging>>

NextRerun ==
    \/ CopyStep
    \/ Rerun

(***************************************************************************)
(* Initial states: a configuration, the two repositories and the staging   *)
(* directory, before copyRelease is called.                                *)
(***************************************************************************)
\* Asset names and filter patterns, as characters and tokens.
NamePool == { <<"a", ".", "z">>, <<"A", ".", "z">>, <<"b", ".", "t">>, <<>> }

PatternPool ==
    { <<"z">>, <<"^", "a">>, <<"\\.", "t", "$">>, <<"(">> }

\* Sequences over S of length at most n.
SeqsUpTo(S, n) == UNION { [1..m -> S] : m \in 0..n }

\* Sequences without repetition.
Distinct(s) == \A i, j \in 1..Len(s) : i # j => s[i] # s[j]

\* Asset lists of a release: names unique within the release, a missing name
\* apart; ids unique within the repository.
AssetLists(r) ==
    { [i \in 1..Len(names) |-> [id |-> 10 * r + i, name |-> names[i]]] :
        names \in { n \in SeqsUpTo(NamePool, MaxAssets) :
                      \A i, j \in 1..Len(n) : i # j /\ n[i] = n[j] => n[i] = <<>> } }

Filters ==
    {Undefined} \cup
    { Some(f) : f \in { g \in SeqsUpTo(PatternPool, MaxPatterns) : Distinct(g) } }

DefaultBody == Some(<<"n">>)

Release(t, d, b, a) == [tag_name |-> t, created_at |-> d, body |-> b, assets |-> a]

\* Source listings of distinct tags from a pool, any dates, no assets.
Listings(pool, n) ==
    { [i \in 1..Len(ts) |-> Release(ts[i], ds[i], DefaultBody, <<>>)] :
        ts \in { t \in SeqsUpTo(pool, n) : Distinct(t) },
        ds \in [1..n -> Dates] }

Config(t, all, semver, filter) ==
    [releaseTag |-> t, copyAllReleases |-> all, sortBySemver |-> semver,
     includeAssets |-> filter, bodyReplaceRegex |-> Undefined,
     bodyReplaceWith |-> Undefined, tempDir |-> Some("./temp")]

\* A destination holding already the releases of the given tags.
DestWith(ts) ==
    [i \in 1..Len(ts) |-> [tag_name |-> ts[i], body |-> <<"o">>, assets |-> <<>>]]

\* A staging directory before the run: absent or present, with its files.
Dir(exists, files) ==
    [exists |-> exists, files |-> files, mkdirs |-> 0,
     before |-> [exists |-> exists, files |-> files]]

EmptyDir(exists) == Dir(exists, <<>>)

\* What an earlier run left in a file.
Stale == [tag |-> EmptyTag, id |-> -1]

\* A staging directory an earlier run has used: it holds a file under the
\* name of an asset and one under another name.
UsedDir == Dir(TRUE, (<<"a", ".", "z">> :> Stale) @@ (<<"o">> :> Stale))

V100 == Tag("v", <<1, 0, 0>>, "")

V200 == Tag("v", <<2, 0, 0>>, "")

V300 == Tag("v", <<3, 0, 0>>, "")

Asset(n, name) == [id |-> n, name |-> name]

\* The source of the copy-all test: three releases, listed newest-first out
\* of order, with two, one and no assets.
BatchSource ==
    << Release(V200, DateOf(2), DefaultBody,
               <<Asset(21, <<"a", ".", "z">>), Asset(22, <<"b", ".", "t">>)>>),
       Release(V100, DateOf(1), Undefined, <<Asset(11, <<"a", ".", "z">>)>>),
       Release(V300, DateOf(3), DefaultBody, <<>>) >>

\* copyRelease called by a program other than the main entry.
Library ==
    [main |-> FALSE, at |-> "copyRelease", argv |-> Undefined, copyAll |-> FALSE,
     sortBySemver |-> Undefined, exit |-> Undefined, reported |-> Undefined]

\* The main entry started with argv[2] and the environment variables
\* COPY_ALL_RELEASES and SORT_BY_SEMVER.
Process(argv, copyAll, sortBySemver) ==
    [main |-> TRUE, at |-> "main", argv |-> argv, copyAll |-> copyAll,
     sortBySemver |-> sortBySemver, exit |-> Undefined, reported |-> Undefined]

Run(p, c, src, dst, dir) ==
    /\ proc = p
    /\ config = c
    /\ source = src
    /\ dest = dst
    /\ staging = dir
    /\ pc = "start"
    /\ page = 0
    /\ fetched = <<>>
    /\ allReleases = <<>>
    /\ idx = 0
    /\ tag = EmptyTag
    /\ dl = DlIdle
    /\ ul = UlIdle
    /\ calls = <<>>
    /\ error = NoError

Program(c, src, dst, dir) == Run(Library, c, src, dst, dir)

\* uploadAssets(apiKey, owner, repo, t, inputDir, release) called by a
\* program other than copySingleRelease: the promise is at the createRelease
\* request, config holds inputDir as tempDir.
UploadCall(t, inputDir, release, dst, dir) ==
    /\ proc = [Library EXCEPT !.at = "uploadAssets"]
    /\ config = [Config(Some(t), Undefined, Undefined, Undefined)
                    EXCEPT !.tempDir = inputDir]
    /\ source = <<>>
    /\ dest = dst
    /\ staging = dir
    /\ pc = "createRelease"
    /\ page = 0
    /\ fetched = <<>>
    /\ allReleases = <<>>
    /\ idx = 0
    /\ tag = t
    /\ dl = DlIdle
    /\ ul = [UlIdle EXCEPT !.release = release]
    /\ calls = << Invoke("uploadAssets", t, release) >>
    /\ error = NoError

\* Every combination of releaseTag and copyAllReleases.
InitConfig ==
    \E t \in {Undefined, Some(EmptyTag), Some(V100)},
       all \in {Undefined, Some(FALSE), Some(TRUE)} :
        Program(Config(t, all, Undefined, Undefined), BatchSource, <<>>, EmptyDir(TRUE))

\* Copy-all over the three-release source, any subset of it already at the
\* destination.
InitBatch ==
    \E present \in SUBSET {V100, V200, V300},
       semver \in {Undefined, Some(FALSE)},
       filter \in {Undefined, Some(<< <<"z">> >>)},
       exists \in BOOLEAN :
        Program(Config(Undefined, Some(TRUE), semver, filter), BatchSource,
                DestWith(SortReleases(SelectSeq(BatchSource,
                                                LAMBDA r : r.tag_name \in present), FALSE)),
                EmptyDir(exists))

\* Single-tag mode: one release with any assets, under any filter.
InitSingle ==
    \E assets \in AssetLists(1), filter \in Filters,
       all \in {Undefined, Some(FALSE)} :
        Program(Config(Some(V100), all, Undefined, filter),
                <<Release(V100, DateOf(1), DefaultBody, assets)>>,
                <<>>, EmptyDir(FALSE))

\* Release bodies: null, empty, and texts the patterns of RegexPool match
\* once, twice, overlapping or not at all.
BodyPool ==
    { Undefined, Some(<<>>), Some(<<"a", "-", "b", "-", "a">>),
      Some(<<"B", " ", "r", " ", "A">>), Some(<<"a", "a", "a">>) }

\* bodyReplaceRegex: unset, empty, literal, anchored, any character, two
\* characters, and one that does not compile.
RegexPool ==
    { Undefined, Some(<<>>), Some(<<"a">>), Some(<<"r">>), Some(<<"^", "a">>),
      Some(<<"a", "$">>), Some(<<".">>), Some(<<"a", "a">>), Some(<<"(">>) }

\* bodyReplaceWith: unset, empty, one and two characters, and texts with the
\* replacement patterns $& and $$.
ReplacementPool ==
    { Undefined, Some(<<>>), Some(<<"X">>), Some(<<"X", "Y">>),
      Some(<<"$&", "X">>), Some(<<"$$">>) }

\* Single-tag mode over one release, for every body, pattern and
\* replacement.
InitBody ==
    \E body \in BodyPool, regex \in RegexPool, with \in ReplacementPool :
        Program([Config(Some(V100), Undefined, Undefined, Undefined)
                    EXCEPT !.bodyReplaceRegex = regex, !.bodyReplaceWith = with],
                <<Release(V100, DateOf(1), body, <<Asset(11, <<"a", ".", "z">>)>>)>>,
                <<>>, EmptyDir(FALSE))

\* The copy of v2.0.0 in both modes under the same filter, pattern and
\* replacement: single-tag mode for v2.0.0, and copy-all mode with the other
\* two releases at the destination already.
InitModes ==
    \E all \in BOOLEAN,
       filter \in { Undefined, Some(<< <<"z">> >>) },
       regex \in { Undefined, Some(<<".">>) },
       with \in { Undefined, Some(<<"X">>) } :
        Program([Config(IF all THEN Undefined ELSE Some(V200),
                        IF all THEN Some(TRUE) ELSE Undefined, Undefined, filter)
                    EXCEPT !.bodyReplaceRegex = regex, !.bodyReplaceWith = with],
                BatchSource,
                IF all THEN DestWith(<<V100, V300>>) ELSE <<>>,
                EmptyDir(TRUE))

\* The main entry, with or without a tag argument and COPY_ALL_RELEASES.
InitMain ==
    \E argv \in {Undefined, Some(EmptyTag), Some(V100)}, copyAll \in BOOLEAN,
       sortBySemver \in {Undefined, Some("false")},
       dst \in { <<>>, DestWith(<<V100>>) } :
        Run(Process(argv, copyAll, sortBySemver),
            Config(Undefined, Undefined, Undefined, Undefined),
            BatchSource, dst, EmptyDir(TRUE))

\* Single-tag mode against a source without the tag, or a destination with
\* it, the staging directory empty or used by an earlier run.
InitSingleEdge ==
    \E src \in { <<>>, <<BatchSource[2]>> }, dst \in { <<>>, DestWith(<<V100>>) },
       dir \in { EmptyDir(TRUE), UsedDir } :
        Program(Config(Some(V100), Some(FALSE), Undefined, Undefined), src, dst, dir)

\* The releases at the even positions of a listing.
EveryOther(s) == [i \in 1..(Len(s) \div 2) |-> s[2 * i]]

\* Copy-all over any listing of TagPool, in every sort mode, with every
\* second listed release at the destination already.
InitOrder ==
    \E src \in Listings(TagPool, MaxReleases),
       semver \in {Undefined, Some(TRUE), Some(FALSE)} :
        Program(Config(Undefined, Some(TRUE), semver, Undefined), src,
                DestWith(TagNames(EveryOther(src))), EmptyDir(TRUE))

\* Copy-all over two or three tags that coerce to the same version, with
\* all or none of them at the destination already.
InitTies ==
    \E src \in Listings(TiePool, 3),
       semver \in {Undefined, Some(TRUE), Some(FALSE)},
       present \in BOOLEAN :
        Program(Config(Undefined, Some(TRUE), semver, Undefined), src,
                IF present THEN DestWith(TagNames(src)) ELSE <<>>,
                EmptyDir(TRUE))

\* The long listing: n releases v1.0.0 .. vn.0.0, newest first.
LongListing(n) ==
    [i \in 1..n |-> Release(Tag("v", <<n + 1 - i, 0, 0>>, ""), DateOf(n + 1 - i),
                            DefaultBody, <<>>)]

\* Copy-all over a listing that fills its last page exactly, or spills one
\* release onto the next page; all but the oldest release are at the
\* destination already.
InitPaged ==
    \E n \in { (MaxPages - 1) * per_page, (MaxPages - 1) * per_page + 1 },
       semver \in {Undefined, Some(FALSE)} :
        Program(Config(Undefined, Some(TRUE), semver, Undefined), LongListing(n),
                DestWith(TagNames(SubSeq(LongListing(n), 1, n - 1))),
                EmptyDir(TRUE))

\* downloadAssets(apiKey, assetFilter, owner, repo, t, outputDir) called by
\* a program other than copySingleRelease: the promise is at the
\* getReleaseByTag request, config holds assetFilter as includeAssets and
\* outputDir as tempDir.
DownloadCall(t, assetFilter, outputDir, src, dir) ==
    /\ proc = [Library EXCEPT !.at = "downloadAssets"]
    /\ config = [Config(Some(t), Undefined, Undefined, assetFilter)
                    EXCEPT !.tempDir = outputDir]
    /\ source = src
    /\ dest = <<>>
    /\ staging = dir
    /\ pc = "getReleaseByTag"
    /\ page = 0
    /\ fetched = <<>>
    /\ allReleases = <<>>
    /\ idx = 0
    /\ tag = t
    /\ dl = DlIdle
    /\ ul = UlIdle
    /\ calls = << Invoke("downloadAssets", t, NoRelease) >>
    /\ error = NoError

\* downloadAssets called for a release with any assets and a body or none,
\* with and without a filter, an output directory that is unset, empty or
\* set, and the directory on disk empty or used.
InitDownload ==
    \E assets \in AssetLists(1), body \in { Undefined, DefaultBody },
       assetFilter \in { Undefined, Some(<< <<"z">> >>) },
       outputDir \in { Undefined, Some(""), Some("./temp") },
       dir \in { EmptyDir(TRUE), UsedDir } :
        DownloadCall(V100, assetFilter, outputDir,
                     <<Release(V100, DateOf(1), body, assets)>>, dir)

\* File names a Release handed to uploadAssets may list: two that UsedDir
\* holds, one that it does not hold.
FilePool == { <<"a", ".", "z">>, <<"o">>, <<"b", ".", "t">> }

\* uploadAssets called with any list of up to MaxFiles names, an input
\* directory that is unset, empty or set, and the directory on disk absent
\* or used.
InitUpload ==
    \E names \in { n \in SeqsUpTo(FilePool, MaxFiles) : Distinct(n) },
       inputDir \in { Undefined, Some(""), Some("./temp") },
       dst \in { <<>>, DestWith(<<V100>>) },
       dir \in { EmptyDir(FALSE), UsedDir } :
        UploadCall(V100, inputDir, [body |-> <<"n">>, assets |-> names], dst, dir)

Init ==
    \/ InitConfig
    \/ InitBatch
    \/ InitSingle
    \/ InitSingleEdge
    \/ InitBody
    \/ InitModes
    \/ InitMain

Spec == Init /\ [][Next]_vars

\* The ordering of copy-all, over every listing.
SpecOrder == (InitOrder \/ InitTies \/ InitBatch \/ InitMain) /\ [][Next]_vars

\* downloadAssets called on its own.
SpecDownload == (InitDownload \/ InitBatch \/ InitMain) /\ [][Next]_vars

\* uploadAssets called on its own.
SpecUpload == (InitUpload \/ InitBatch \/ InitMain) /\ [][Next]_vars

\* Copy-all called up to MaxRuns times over the three-release source, the
\* first time with the destination empty or holding v1.0.0.
InitRerun ==
    \E dst \in { <<>>, DestWith(<<V100>>) },
       filter \in { Undefined, Some(<< <<"z">> >>) } :
        Run(Library @@ [run |-> 1, prev |-> "none", before |-> dst],
            Config(Undefined, Some(TRUE), Undefined, filter),
            BatchSource, dst, EmptyDir(TRUE))

SpecRerun == InitRerun /\ [][NextRerun]_vars

\* Every call copyRelease awaits returns or fails: a step that can be taken
\* is taken, up to the settling of the promise and the exit of the process.
SpecLive ==
    /\ InitBatch \/ InitSingleEdge \/ InitModes \/ InitMain
    /\ [][Next]_vars
    /\ WF_vars(Next)

\* Copy-all over a listing of more than one page.
SpecPaged == (InitPaged \/ InitBatch \/ InitMain) /\ [][Next]_vars

(***************************************************************************)
(* Properties.                                                             *)
(***************************************************************************)
CopyAll == Truthy(config.copyAllReleases)

Finished == pc \in {"resolved", "rejected"}

IsCheck(c) == c.op = "getReleaseByTag" /\ c.side = "dest"

\* Positions in the history of the calls about tag t.
ChecksOf(t) == { i \in DOMAIN calls : IsCheck(calls[i]) /\ calls[i].tag = t }

DownloadsOf(t) ==
    { i \in DOMAIN calls : calls[i].op = "downloadAssets" /\ calls[i].tag = t }

UploadsOf(t) ==
    { i \in DOMAIN calls : calls[i].op = "uploadAssets" /\ calls[i].tag = t }

DestWritesOf(t) ==
    { i \in DOMAIN calls : /\ calls[i].op \in {"createRelease", "uploadReleaseAsset"}
                           /\ calls[i].tag = t }

SourceTags == { source[i].tag_name : i \in DOMAIN source }

FoundExisting(t) == \E i \in ChecksOf(t) : calls[i].res = NoError

FoundMissing(t) == \E i \in ChecksOf(t) : calls[i].res.status = 404

\* The run was rejected while downloadAssets for t was in progress.
DownloadFailed(t) ==
    /\ pc = "rejected"
    /\ calls # <<>>
    /\ calls[Len(calls)].side = "source"
    /\ calls[Len(calls)].tag = t

\* C1: copyRelease rejects with a configuration error, having issued no call
\* at all, whenever releaseTag and copyAllReleases are both set or both
\* unset; with exactly one of them set it never rejects with that error.
C1_ConfigErrorBeforeAnyCall ==
    LET both == Truthy(config.copyAllReleases) /\ TruthyTag(config.releaseTag)
        neither == ~Truthy(config.copyAllReleases) /\ ~TruthyTag(config.releaseTag)
    IN  /\ (both \/ neither) /\ pc # "start" =>
              /\ pc = "rejected"
              /\ error.kind = "ConfigError"
              /\ calls = <<>>
        /\ ~(both \/ neither) => error.kind # "ConfigError"

C1_Witness ==
    /\ pc = "rejected"
    /\ error.kind = "ConfigError"
    /\ config.copyAllReleases = Some(TRUE)
    /\ config.releaseTag = Some(V100)

Checks == { i \in DOMAIN calls : IsCheck(calls[i]) }

\* Positions in the history where the copy of a release begins.
Copies == { i \in DOMAIN calls : calls[i].op = "downloadAssets" }

ReleaseOfTag(t) == source[IndexOfTag(source, t)]

CreatedAt(t) == GetTime(ReleaseOfTag(t).created_at)

\* The coerced version of tag t as <<major, minor, patch>>, or <<>>.
VersionOf(t) == Coerce(t)

Coercible(t) == VersionOf(t) # <<>>

\* Version v is numerically lower than version w.
Lower(v, w) ==
    \/ v[1] < w[1]
    \/ v[1] = w[1] /\ v[2] < w[2]
    \/ v[1] = w[1] /\ v[2] = w[2] /\ v[3] < w[3]

SemverOrder == config.sortBySemver \in {Undefined, Some(TRUE)}

\* C3 as stated: in copy-all mode with sortBySemver unset, whenever source
\* release A was created before source release B, the existence check and
\* the copy of A come before those of B.
C3_OldestToNewest ==
    CopyAll /\ config.sortBySemver = Undefined =>
        /\ \A i \in Checks, j \in Checks :
              CreatedAt(calls[i].tag) < CreatedAt(calls[j].tag) => i < j
        /\ \A i \in Copies, j \in Copies :
              CreatedAt(calls[i].tag) < CreatedAt(calls[j].tag) => i < j

\* C4: in copy-all mode with sortBySemver unset or true, the tags that
\* coerce to a semantic version are processed in ascending (major, minor,
\* patch) order, whatever their listing order and creation timestamps.
C4_SemverAscending ==
    CopyAll /\ SemverOrder =>
        \A i \in Checks \cup Copies, j \in Checks \cup Copies :
            /\ i < j
            /\ Coercible(calls[i].tag)
            /\ Coercible(calls[j].tag)
            => ~Lower(VersionOf(calls[j].tag), VersionOf(calls[i].tag))

\* v1.10.0 is listed first and created first, v2.0.0 second, v1.0.0 last,
\* and the three were checked as v1.0.0, v1.10.0, v2.0.0.
C4_Witness ==
    /\ CopyAll /\ SemverOrder /\ Finished
    /\ TagNames(source) = << Tag("v", <<1, 10, 0>>, ""), V200, V100 >>
    /\ CreatedAt(Tag("v", <<1, 10, 0>>, "")) < CreatedAt(V100)
    /\ \E i \in Checks, j \in Checks, k \in Checks :
          /\ i < j /\ j < k
          /\ calls[i].tag = V100
          /\ calls[j].tag = Tag("v", <<1, 10, 0>>, "")
          /\ calls[k].tag = V200

\* C5: in semantic-version order every tag that does not coerce to a
\* semantic version is processed after every tag that does, whatever its
\* creation timestamp, and the non-coercible tags are processed among
\* themselves in ascending creation-timestamp order.
C5_NonCoercibleLast ==
    CopyAll /\ SemverOrder =>
        \A i \in Checks \cup Copies, j \in Checks \cup Copies :
            /\ i < j
            /\ ~Coercible(calls[i].tag)
            => /\ ~Coercible(calls[j].tag)
               /\ CreatedAt(calls[i].tag) <= CreatedAt(calls[j].tag)

\* Two non-coercible tags and a coercible one created after them, all
\* checked, the coercible one first.
C5_Witness ==
    /\ CopyAll /\ SemverOrder /\ Finished
    /\ Cardinality(Checks) = 3
    /\ \E i \in Checks, j \in Checks, k \in Checks :
          /\ i < j /\ j < k
          /\ Coercible(calls[i].tag)
          /\ ~Coercible(calls[j].tag) /\ ~Coercible(calls[k].tag)
          /\ CreatedAt(calls[j].tag) < CreatedAt(calls[i].tag)
          /\ CreatedAt(calls[j].tag) < CreatedAt(calls[k].tag)
          /\ IndexOfTag(source, calls[k].tag) < IndexOfTag(source, calls[j].tag)

\* C6: in copy-all mode with sortBySemver false, tags are processed in
\* ascending creation-timestamp order whatever their names, and tags with
\* equal timestamps keep their relative source listing order.
C6_CreatedAscendingStable ==
    CopyAll /\ config.sortBySemver = Some(FALSE) =>
        \A i \in Checks \cup Copies, j \in Checks \cup Copies :
            /\ i < j
            /\ calls[i].tag # calls[j].tag
            => \/ CreatedAt(calls[i].tag) < CreatedAt(calls[j].tag)
               \/ /\ CreatedAt(calls[i].tag) = CreatedAt(calls[j].tag)
                  /\ IndexOfTag(source, calls[i].tag)
                        < IndexOfTag(source, calls[j].tag)

\* v2.0.0 is created before v1.0.0, and two releases share a timestamp; the
\* higher version was checked first.
C6_Witness ==
    /\ CopyAll /\ config.sortBySemver = Some(FALSE) /\ Finished
    /\ Cardinality(Checks) = 3
    /\ \E i \in Checks, j \in Checks, k \in Checks :
          /\ i < j /\ j < k
          /\ calls[i].tag = V200 /\ calls[j].tag = V100
          /\ CreatedAt(V200) < CreatedAt(V100)
          /\ CreatedAt(calls[k].tag) = CreatedAt(V100)

\* The tags that come after position n of the processing order.
LaterTags(n) == { allReleases[m] : m \in (n + 1)..Len(allReleases) }

DestTags == { dest[i].tag_name : i \in DOMAIN dest }

\* C7: in copy-all mode, when the destination existence check of a tag fails
\* with a status other than 404, copyRelease rejects with that same error,
\* no download or upload is made for that tag, and nothing at all is done
\* for any later tag.
C7_CheckFailureAborts ==
    CopyAll =>
        \A i \in Checks :
            calls[i].res # NoError /\ calls[i].res.status # 404 =>
                /\ pc = "rejected"
                /\ error = calls[i].res
                /\ i = Len(calls)
                /\ ~ENABLED CopyStep
                /\ calls[i].tag = allReleases[idx]
                /\ DownloadsOf(calls[i].tag) = {}
                /\ UploadsOf(calls[i].tag) = {}
                /\ DestWritesOf(calls[i].tag) = {}
                /\ \A k \in DOMAIN calls : calls[k].tag \notin LaterTags(idx)

\* The existence check of the second tag ends with status 429 after the first tag was
\* copied, and a third tag remains.
C7_Witness ==
    /\ CopyAll
    /\ pc = "rejected"
    /\ error.status = 429
    /\ IsCheck(calls[Len(calls)])
    /\ idx = 2 /\ Len(allReleases) = 3
    /\ UploadsOf(allReleases[1]) # {}

\* Positions in the history of the failed calls of a copy.
FailedCopyCalls ==
    { i \in DOMAIN calls : /\ calls[i].res # NoError
                           /\ ~IsCheck(calls[i])
                           /\ calls[i].op # "listReleases" }

\* The run was rejected inside copySingleRelease.
CopyFailed ==
    /\ pc = "rejected"
    /\ calls # <<>>
    /\ ~IsCheck(calls[Len(calls)])
    /\ calls[Len(calls)].op # "listReleases"

\* C8: in copy-all mode, when the copy of the N-th tag fails in download or
\* in upload, the failure propagates to the caller, the releases created for
\* the earlier tags stay at the destination, and nothing at all is done for
\* any tag after the N-th.
C8_CopyFailureStops ==
    CopyAll =>
        /\ \A i \in FailedCopyCalls : pc = "rejected" /\ i = Len(calls)
        /\ CopyFailed =>
              /\ error # NoError
              /\ ~ENABLED CopyStep
              /\ calls[Len(calls)].tag = allReleases[idx]
              /\ \A i \in DOMAIN calls :
                    /\ calls[i].tag \notin LaterTags(idx)
                    /\ calls[i].op = "createRelease" /\ calls[i].res = NoError =>
                          \E d \in DOMAIN dest :
                              /\ dest[d].tag_name = calls[i].tag
                              /\ dest[d].body = calls[i].body
              /\ \A m \in 1..(idx - 1) : allReleases[m] \in DestTags

\* The copy of the second tag fails in upload after the first tag was
\* created at the destination, and a third tag remains.
C8_Witness ==
    /\ CopyAll
    /\ CopyFailed
    /\ calls[Len(calls)].op = "uploadReleaseAsset"
    /\ idx = 2 /\ Len(allReleases) = 3
    /\ \E i \in DOMAIN calls :
          /\ calls[i].op = "createRelease"
          /\ calls[i].res = NoError
          /\ calls[i].tag = allReleases[1]

\* C9: copy-all mode enumerates every release of the source however many
\* listing pages it spans: in a run that does not fail, every source
\* release's tag is existence-checked at the destination.
C9_EveryPageEnumerated ==
    CopyAll /\ pc = "resolved" =>
        \A r \in DOMAIN source : ChecksOf(source[r].tag_name) # {}

\* A resolved run over a listing longer than one page, whose last release
\* was copied.
C9_Witness ==
    /\ CopyAll
    /\ pc = "resolved"
    /\ Len(source) > per_page
    /\ UploadsOf(source[Len(source)].tag_name) # {}

\* Which patterns of PatternPool match which names of NamePool, as a
\* regular-expression search decides it.
PatternMatchesName(p, n) ==
    \/ p = <<"z">> /\ n \in { <<"a", ".", "z">>, <<"A", ".", "z">> }
    \/ p = <<"^", "a">> /\ n = <<"a", ".", "z">>
    \/ p = <<"\\.", "t", "$">> /\ n = <<"b", ".", "t">>

\* The filter asks for the asset name.
Wanted(name) ==
    \/ config.includeAssets = Undefined
    \/ \E i \in DOMAIN config.includeAssets[1] :
          PatternMatchesName(config.includeAssets[1][i], name)

ContentRequested(id) ==
    \E i \in DOMAIN calls :
        calls[i].op = "getReleaseAssetContent" /\ calls[i].arg = id

\* C10: downloadAssets includes a named asset iff the filter is undefined or
\* at least one of its patterns matches the name; an asset the filter
\* excludes has no content request and is not in the assets of the Release
\* that downloadAssets returns.
C10_FilterDecidesInclusion ==
    /\ \A t \in SourceTags : \A k \in DOMAIN ReleaseOfTag(t).assets :
          LET a == ReleaseOfTag(t).assets[k]
          IN  a.name # <<>> /\ ~Wanted(a.name) => ~ContentRequested(a.id)
    /\ \A u \in DOMAIN calls :
          calls[u].op = "uploadAssets" =>
              \A k \in DOMAIN ReleaseOfTag(calls[u].tag).assets :
                  LET a == ReleaseOfTag(calls[u].tag).assets[k]
                      listed == \E x \in DOMAIN calls[u].assets :
                                    calls[u].assets[x] = a.name
                  IN  a.name # <<>> =>
                          /\ listed <=> Wanted(a.name)
                          /\ ContentRequested(a.id) <=> Wanted(a.name)

\* The filter ^a over the assets A.z and a.z: only a.z is returned.
C10_Witness ==
    /\ config.includeAssets = Some(<< <<"^", "a">> >>)
    /\ \E u \in DOMAIN calls :
          /\ calls[u].op = "uploadAssets"
          /\ calls[u].assets = << <<"a", ".", "z">> >>
          /\ Len(ReleaseOfTag(calls[u].tag).assets) = 2
          /\ ReleaseOfTag(calls[u].tag).assets[1].name = <<"A", ".", "z">>
          /\ ContentRequested(ReleaseOfTag(calls[u].tag).assets[2].id)
          /\ ~ContentRequested(ReleaseOfTag(calls[u].tag).assets[1].id)

\* The filter holds the pattern that does not compile.
HasInvalidPattern ==
    /\ config.includeAssets # Undefined
    /\ \E i \in DOMAIN config.includeAssets[1] : config.includeAssets[1][i] = <<"(">>

\* Some pattern of the filter other than the invalid one matches the name.
ValidPatternMatches(name) ==
    \E i \in DOMAIN config.includeAssets[1] :
        /\ config.includeAssets[1][i] # <<"(">>
        /\ PatternMatchesName(config.includeAssets[1][i], name)

\* Positions in the history where copySingleRelease calls uploadAssets.
Uploads == { u \in DOMAIN calls : calls[u].op = "uploadAssets" }

\* C11: a filter pattern that does not compile never makes downloadAssets
\* fail and counts as non-matching for that pattern only: with such a
\* pattern in the filter, the step that tests the filter never rejects, a
\* rejection always comes from a failed request or a failed stream, and the
\* returned assets are exactly those a valid pattern of the filter matches.
C11_InvalidPatternNotFatal ==
    HasInvalidPattern =>
        /\ calls # <<>> /\ calls[Len(calls)].op = "getReleaseAsset"
              /\ calls[Len(calls)].res = NoError => pc # "rejected"
        /\ pc = "rejected" =>
              calls[Len(calls)].res # NoError \/ error.kind = "IOError"
        /\ \A u \in Uploads :
              \A k \in DOMAIN ReleaseOfTag(calls[u].tag).assets :
                  LET a == ReleaseOfTag(calls[u].tag).assets[k]
                  IN  a.name # <<>> =>
                          ((\E x \in DOMAIN calls[u].assets :
                                calls[u].assets[x] = a.name)
                              <=> ValidPatternMatches(a.name))

\* The filter [ "(", "z" ] over the assets a.z and b.t: a.z is returned,
\* b.t is not.
C11_Witness ==
    /\ config.includeAssets = Some(<< <<"(">>, <<"z">> >>)
    /\ \E u \in Uploads :
          /\ calls[u].assets = << <<"a", ".", "z">> >>
          /\ Len(ReleaseOfTag(calls[u].tag).assets) = 2
          /\ ReleaseOfTag(calls[u].tag).assets[2].name = <<"b", ".", "t">>

\* The names of the assets of release r that have a name and that the
\* filter asks for, in listing order.
IncludedNames(r) ==
    LET kept == SelectSeq(r.assets, LAMBDA a : a.name # <<>> /\ Wanted(a.name))
    IN  [i \in 1..Len(kept) |-> kept[i].name]

\* C12: on success downloadAssets returns a Release whose assets are exactly
\* the included, named assets in source listing order and whose body is the
\* source release's body, or the empty string when that body is null.
C12_ReturnedRelease ==
    dl.result # Undefined =>
        /\ dl.result[1].assets = IncludedNames(ReleaseOfTag(tag))
        /\ dl.result[1].body =
              (IF ReleaseOfTag(tag).body = Undefined THEN <<>>
               ELSE ReleaseOfTag(tag).body[1])

\* The download of v1.0.0, whose body is null, returned its asset and the
\* empty body.
C12_Witness ==
    /\ tag = V100
    /\ dl.result = Some([assets |-> << <<"a", ".", "z">> >>, body |-> <<>>])
    /\ ReleaseOfTag(V100).body = Undefined

\* The staging directory holds a file whose stream failed.
StreamFailed ==
    \E n \in DOMAIN staging.files : staging.files[n] = Partial(tag)

\* downloadAssets was left without a Release and nothing was sent to the
\* destination for tag t.
DownloadAborted(t) ==
    /\ pc = "rejected"
    /\ error # NoError
    /\ dl.result = Undefined
    /\ UploadsOf(t) = {}
    /\ DestWritesOf(t) = {}

\* C13: when fetching an asset's metadata, fetching its content or streaming
\* it to the staging directory fails, downloadAssets rejects without a
\* Release, the failed request is the last one made, and no createRelease or
\* uploadReleaseAsset call is made for the tag.
C13_AssetFailureAborts ==
    /\ \A i \in DOMAIN calls :
          /\ calls[i].op \in {"getReleaseAsset", "getReleaseAssetContent"}
          /\ calls[i].res # NoError
          => i = Len(calls) /\ DownloadAborted(calls[i].tag)
    /\ StreamFailed =>
          /\ calls[Len(calls)].op = "getReleaseAssetContent"
          /\ DownloadAborted(tag)

\* The stream of the first of two assets failed; the second was never
\* fetched.
C13_Witness ==
    /\ StreamFailed
    /\ pc = "rejected"
    /\ Len(dl.assets) = 2 /\ dl.k = 1
    /\ \A i \in DOMAIN calls : calls[i].arg # dl.assets[2].id

\* Positions in the history of the requests of kind op sent to the
\* destination for tag t.
DestCallsOf(op, t) ==
    { i \in DOMAIN calls : calls[i].op = op /\ calls[i].side = "dest"
                           /\ calls[i].tag = t }

\* The i-th smallest element of a set of positions.
Nth(S, i) == CHOOSE k \in S : Cardinality({ m \in S : m <= k }) = i

\* uploadAssets for tag t has returned.
UploadReturned(t) ==
    \/ pc = "resolved"
    \/ CopyAll /\ t \in { allReleases[m] : m \in 1..(idx - 1) }

HitAt(body, p, i) ==
    CASE p = <<"a">> -> body[i] = "a"
      [] p = <<"r">> -> body[i] = "r"
      [] p = <<"^", "a">> -> i = 1 /\ body[i] = "a"
      [] p = <<"a", "$">> -> i = Len(body) /\ body[i] = "a"
      [] p = <<".">> -> TRUE
      [] OTHER -> FALSE

\* The replacement text as it is written, character by character.
Written(repl) ==
    IF repl = <<"$&", "X">> THEN <<"$", "&", "X">>
    ELSE IF repl = <<"$$">> THEN <<"$", "$">>
    ELSE repl

\* The replacement text with its replacement patterns expanded for a match.
Expanded(repl, matched) ==
    IF repl = <<"$&", "X">> THEN matched \o <<"X">>
    ELSE IF repl = <<"$$">> THEN <<"$">>
    ELSE repl

\* The text put in place of a match: the replacement as written, or with its
\* replacement patterns expanded.
PutIn(repl, matched, expand) ==
    IF expand THEN Expanded(repl, matched) ELSE Written(repl)

\* The body from position i on, each matched character replaced.
RECURSIVE Substituted(_, _, _, _, _)
Substituted(body, p, repl, i, expand) ==
    IF i > Len(body) THEN <<>>
    ELSE (IF HitAt(body, p, i) THEN PutIn(repl, <<body[i]>>, expand)
          ELSE <<body[i]>>)
            \o Substituted(body, p, repl, i + 1, expand)

\* What replacing every match of p in the body gives, for the patterns of
\* RegexPool that compile: character by character for the patterns that
\* match one character, and aa in aaa once, at the front.
ExpectedBody(body, p, repl, expand) ==
    IF p = <<"a", "a">>
    THEN (IF body = <<"a", "a", "a">>
          THEN PutIn(repl, <<"a", "a">>, expand) \o <<"a">> ELSE body)
    ELSE Substituted(body, p, repl, 1, expand)

RegexSet ==
    /\ config.bodyReplaceRegex # Undefined
    /\ config.bodyReplaceRegex[1] # <<>>

RegexValid == RegexSet /\ config.bodyReplaceRegex[1] # <<"(">>

\* The uploadAssets call for the current tag carries the release r.
PassedToUploader(r) ==
    /\ ul.release = r
    /\ \A u \in UploadsOf(tag) : calls[u].body = r.body /\ calls[u].assets = r.assets
    /\ UploadsOf(tag) # {}

C16_NoRegexNoChange ==
    ~RegexSet /\ dl.result # Undefined => PassedToUploader(dl.result[1])

\* The empty pattern with the replacement X left "a-b-a" as it was.
C16_Witness ==
    /\ config.bodyReplaceRegex = Some(<<>>)
    /\ config.bodyReplaceWith = Some(<<"X">>)
    /\ dl.result # Undefined
    /\ dl.result[1].body = <<"a", "-", "b", "-", "a">>
    /\ ul.release.body = <<"a", "-", "b", "-", "a">>

\* C17 as stated: with bodyReplaceRegex and bodyReplaceWith both set, every
\* non-overlapping match of the pattern in the body is replaced by the
\* replacement text, and the rest of the text is unchanged.
C17_Original ==
    RegexValid /\ config.bodyReplaceWith # Undefined /\ dl.result # Undefined =>
        PassedToUploader([dl.result[1] EXCEPT !.body =
            ExpectedBody(dl.result[1].body, config.bodyReplaceRegex[1],
                         config.bodyReplaceWith[1], FALSE)])

\* C17 (amended): with bodyReplaceRegex and bodyReplaceWith both set, every
\* non-overlapping match of the pattern in the body, not only the first, is
\* replaced by the replacement text with its replacement patterns expanded
\* ($$ a dollar sign, $& the matched text), and the rest is unchanged.
C17_EveryMatchReplaced ==
    RegexValid /\ config.bodyReplaceWith # Undefined /\ dl.result # Undefined =>
        PassedToUploader([dl.result[1] EXCEPT !.body =
            ExpectedBody(dl.result[1].body, config.bodyReplaceRegex[1],
                         config.bodyReplaceWith[1], TRUE)])

\* "a-b-a" with the pattern a and the replacement X became "X-b-X".
C17_Witness ==
    /\ config.bodyReplaceRegex = Some(<<"a">>)
    /\ config.bodyReplaceWith = Some(<<"X">>)
    /\ dl.result # Undefined
    /\ dl.result[1].body = <<"a", "-", "b", "-", "a">>
    /\ ul.release.body = <<"X", "-", "b", "-", "X">>

\* C18: when bodyReplaceRegex does not compile, the downloaded body is
\* passed to the uploader unchanged and the copy goes on to createRelease;
\* a rejection always comes from a failed request, stream or file read.
C18_InvalidRegexNotFatal ==
    config.bodyReplaceRegex = Some(<<"(">>) =>
        /\ dl.result # Undefined =>
              /\ PassedToUploader(dl.result[1])
              /\ calls[Len(calls)].op = "uploadAssets" => pc = "createRelease"
        /\ pc = "rejected" =>
              calls[Len(calls)].res # NoError \/ error.kind = "IOError"

\* With the pattern "(" and the replacement X the release was created with
\* the body "a-b-a".
C18_Witness ==
    /\ config.bodyReplaceRegex = Some(<<"(">>)
    /\ config.bodyReplaceWith = Some(<<"X">>)
    /\ \E i \in DestCallsOf("createRelease", V100) :
          /\ calls[i].res = NoError
          /\ calls[i].body = <<"a", "-", "b", "-", "a">>

\* The process was started without a tag and without copy-all, or with a
\* tag together with copy-all.
ModeCheckFails ==
    /\ proc.main
    /\ \/ ~proc.copyAll /\ proc.argv = Undefined
       \/ proc.copyAll /\ proc.argv \notin {Undefined, Some(EmptyTag)}

\* Some step of the run failed: a request other than a destination existence
\* check answered 404 ended in an error, or copyRelease rejected.
SomeStepFailed ==
    \/ pc = "rejected"
    \/ \E i \in DOMAIN calls :
          /\ calls[i].res # NoError
          /\ ~(IsCheck(calls[i]) /\ calls[i].res.status = 404)

\* C19: the process exits with code 0 iff copyRelease resolves, and with a
\* non-zero code whenever copyRelease rejects or the command-line mode check
\* fails; a run in which a copy step failed never exits 0.
C19_ExitCode ==
    proc.main =>
        /\ proc.exit = Some(0) <=> proc.at = "exited" /\ pc = "resolved"
        /\ proc.at = "exited" /\ pc = "rejected" => proc.exit = Some(1)
        /\ ModeCheckFails /\ proc.at # "main" =>
              /\ proc.at = "exited"
              /\ proc.exit = Some(1)
              /\ pc = "start"
              /\ calls = <<>>
        /\ SomeStepFailed => proc.exit # Some(0)
        /\ proc.at = "exited" => proc.exit # Undefined

\* The process copied all releases, one upload having failed, and exited
\* with code 1.
C19_Witness ==
    /\ proc.main
    /\ proc.copyAll
    /\ proc.exit = Some(1)
    /\ pc = "rejected"
    /\ calls[Len(calls)].op = "uploadReleaseAsset"

\* The run was rejected while the content of an asset was requested or
\* streamed.
ContentFailed ==
    /\ pc = "rejected"
    /\ calls # <<>>
    /\ calls[Len(calls)].op = "getReleaseAssetContent"

\* C20 as stated: an error raised while requesting or streaming an asset's
\* content reaches the caller wrapped in an error that names the asset id
\* and carries the original error's message.
C20_ContentErrorsWrapped ==
    ContentFailed =>
        /\ error.kind = "Error"
        /\ error.message = "Error downloading asset"
        /\ error.asset = calls[Len(calls)].arg
        /\ error.cause # ""

\* Positions in the history of the requests of kind op sent to the source
\* for tag t.
SourceCallsOf(op, t) ==
    { i \in DOMAIN calls : calls[i].op = op /\ calls[i].side = "source"
                           /\ calls[i].tag = t }

\* The source was asked for the release of a tag it does not have, and
\* answered.
LookupOfMissingTag(i) ==
    /\ calls[i].op = "getReleaseByTag"
    /\ calls[i].side = "source"
    /\ calls[i].tag \notin SourceTags
    /\ calls[i].res \notin Faults

\* C21: when the requested tag does not exist at the source, the copy of
\* that tag fails with the source's not-found error after a single lookup:
\* copyRelease rejects with that error, the lookup is the last request made,
\* no asset is listed or downloaded, no file is staged, and nothing is sent
\* to the destination for the tag.
C21_MissingTagFails ==
    \A i \in DOMAIN calls :
        LookupOfMissingTag(i) =>
            LET t == calls[i].tag
            IN  /\ calls[i].res = NotFound
                /\ pc = "rejected"
                /\ error = NotFound
                /\ i = Len(calls)
                /\ SourceCallsOf("getReleaseByTag", t) = {i}
                /\ \A k \in DOMAIN calls :
                      calls[k].op \notin {"listReleaseAssets", "getReleaseAsset",
                                          "getReleaseAssetContent", "uploadAssets",
                                          "createRelease", "uploadReleaseAsset"}
                /\ staging.files = staging.before.files
                /\ dl.result = Undefined

\* Single-tag mode for v1.0.0 against a source without releases: rejected
\* with status 404 after the one lookup.
C21_Witness ==
    /\ config.releaseTag = Some(V100)
    /\ source = <<>>
    /\ dest = <<>>
    /\ pc = "rejected"
    /\ error.status = 404
    /\ Len(calls) = 2
    /\ calls[2].op = "getReleaseByTag" /\ calls[2].side = "source"

\* The name of the source asset with the given id.
NameOfAsset(id) ==
    LET r == CHOOSE r \in DOMAIN source :
                 \E k \in DOMAIN source[r].assets : source[r].assets[k].id = id
        k == CHOOSE k \in DOMAIN source[r].assets : source[r].assets[k].id = id
    IN  source[r].assets[k].name

\* Positions in the history of the content requests whose stream has been
\* piped to the staging directory, completely or not.
Piped ==
    { i \in DOMAIN calls : /\ calls[i].op = "getReleaseAssetContent"
                           /\ calls[i].res = NoError
                           /\ ~(i = Len(calls) /\ pc = "pipeline") }

\* C22: before the download of any tag begins the staging directory exists;
\* the orchestrator calls mkdirSync iff the directory was absent, and then
\* once; a directory that was there keeps every file it had, unless a
\* download of this run wrote a file of the same name; and every file a
\* download has written is still there at every later point of the run,
\* after a copy that succeeded and after one that failed.
C22_StagingDirKept ==
    /\ Copies # {} => staging.exists
    /\ staging.exists <=> staging.before.exists \/ Copies # {}
    /\ staging.mkdirs =
          (IF ~staging.before.exists /\ Copies # {} THEN 1 ELSE 0)
    /\ \A n \in DOMAIN staging.before.files :
          /\ n \in DOMAIN staging.files
          /\ \/ staging.files[n] = staging.before.files[n]
             \/ \E i \in Piped : NameOfAsset(calls[i].arg) = n
    /\ \A i \in Piped : NameOfAsset(calls[i].arg) \in DOMAIN staging.files

\* A run over a used staging directory failed in createRelease after its
\* download: the directory was not made again, the file left under another
\* name is as it was, and the downloaded file is there.
C22_Witness ==
    /\ staging.before = [exists |-> TRUE,
                         files |-> (<<"a", ".", "z">> :> Stale) @@ (<<"o">> :> Stale)]
    /\ pc = "rejected"
    /\ calls[Len(calls)].op = "createRelease"
    /\ staging.mkdirs = 0
    /\ staging.files[<<"o">>] = Stale
    /\ staging.files[<<"a", ".", "z">>] = ContentOf(V100, Asset(11, <<"a", ".", "z">>))

\* The release of tag t was created at the destination in this run and
\* every name of the Release handed to uploadAssets was uploaded to it, in
\* order, each request answered without error.
Copied(t) ==
    /\ Cardinality(UploadsOf(t)) = 1
    /\ \E c \in DestCallsOf("createRelease", t) : calls[c].res = NoError
    /\ IndexOfTag(dest, t) # 0
    /\ \A u \in UploadsOf(t) :
          LET sent == DestCallsOf("uploadReleaseAsset", t)
              attached == dest[IndexOfTag(dest, t)].assets
          IN  /\ Cardinality(sent) = Len(calls[u].assets)
              /\ \A i \in sent : calls[i].res = NoError
              /\ Len(attached) = Len(calls[u].assets)
              /\ \A k \in DOMAIN attached :
                    /\ attached[k].name = calls[u].assets[k]
                    /\ calls[Nth(sent, k)].assets = << calls[u].assets[k] >>

\* C23: copyRelease resolves in copy-all mode only if every enumerated
\* source tag was found existing at the destination or had its release
\* created and every name of its Release.assets uploaded; in single-tag mode
\* only if that tag's release was created and all its assets were uploaded.
C23_ResolvedMeansAllDone ==
    pc = "resolved" =>
        IF CopyAll
        THEN \A t \in SourceTags : FoundExisting(t) \/ Copied(t)
        ELSE Copied(config.releaseTag[1])

\* Copy-all resolved with v1.0.0 found at the destination, v2.0.0 copied
\* with its two assets and v3.0.0 copied without assets.
C23_Witness ==
    /\ CopyAll
    /\ pc = "resolved"
    /\ FoundExisting(V100)
    /\ ~FoundExisting(V200) /\ Copied(V200)
    /\ Len(dest[IndexOfTag(dest, V200)].assets) = 2
    /\ ~FoundExisting(V300) /\ Copied(V300)

\* The tag names a pre-release: a version followed by a hyphen and an
\* identifier, as v1.0.0-beta.
PreRelease(t) == Coercible(t) /\ t.suffix # ""

\* C24 as stated: in semantic-version order a pre-release tag is processed
\* before the release tag of the same major.minor.patch, whatever their
\* order in the source listing.
C24_PreReleaseFirst ==
    CopyAll /\ SemverOrder =>
        \A i \in Checks \cup Copies, j \in Checks \cup Copies :
            /\ PreRelease(calls[i].tag)
            /\ ~PreRelease(calls[j].tag)
            /\ VersionOf(calls[i].tag) = VersionOf(calls[j].tag)
            => i < j

\* The assets attached to the destination release of tag t.
Attached(t) ==
    IF IndexOfTag(dest, t) # 0 THEN dest[IndexOfTag(dest, t)].assets ELSE <<>>

\* createRelease for tag t was answered without error in this run.
Created(t) ==
    \E c \in DestCallsOf("createRelease", t) : calls[c].res = NoError

\* Reading a staged file failed.
ReadFailed == error.kind = "IOError" /\ error.message = "ENOENT"

\* The call of uploadAssets for tag t ended in the error copyRelease, or
\* the caller of uploadAssets, was rejected with; the release created for t
\* is at the destination and no request follows.
UploadAborted(t) ==
    /\ pc = "rejected"
    /\ error # NoError
    /\ ~ENABLED CopyStep
    /\ Created(t)
    /\ IndexOfTag(dest, t) # 0

\* C25: at every point during and after uploadAssets for a tag, the assets
\* attached to the destination release are a prefix of release.assets; when
\* reading a staged file or an upload fails, no later asset is attempted,
\* the created release stays at the destination, and the error is the one
\* the caller is rejected with.
C25_AttachedIsPrefix ==
    /\ \A u \in Uploads :
          LET t == calls[u].tag
              names == calls[u].assets
              sent == DestCallsOf("uploadReleaseAsset", t)
          IN  /\ Len(Attached(t)) <= Len(names)
              /\ \A k \in DOMAIN Attached(t) : Attached(t)[k].name = names[k]
              /\ \A i \in sent :
                    calls[i].res # NoError =>
                        /\ i = Len(calls)
                        /\ error = calls[i].res
                        /\ UploadAborted(t)
                        /\ Cardinality(sent) = Len(Attached(t)) + 1
    /\ ReadFailed =>
          /\ UploadAborted(tag)
          /\ calls[Len(calls)].res = NoError
          /\ Cardinality(DestCallsOf("uploadReleaseAsset", tag)) = Len(Attached(tag))
          /\ Len(Attached(tag)) < Len(ul.release.assets)

\* uploadAssets was called with the names a.z, b.t and o over a directory
\* that holds a.z and o: a.z is attached, reading b.t failed, o was never
\* read or sent.
C25_Witness ==
    /\ proc.at = "uploadAssets"
    /\ ul.release.assets = << <<"a", ".", "z">>, <<"b", ".", "t">>, <<"o">> >>
    /\ ReadFailed
    /\ pc = "rejected"
    /\ Len(Attached(V100)) = 1
    /\ Attached(V100)[1].name = <<"a", ".", "z">>
    /\ Cardinality(DestCallsOf("uploadReleaseAsset", V100)) = 1

\* The content request at position i of the history has completed: it was
\* answered and its stream was written to the end.  The file is there, and
\* it is neither what an earlier run left nor a truncated file of this tag
\* (a later tag may have written a file of the same name over it).
DownloadCompleted(i) ==
    /\ calls[i].res = NoError
    /\ NameOfAsset(calls[i].arg) \in DOMAIN staging.files
    /\ staging.files[NameOfAsset(calls[i].arg)]
          \notin { Stale, Partial(calls[i].tag) }

\* The upload at position i of the history has completed: it was answered
\* and the file is attached to the release.
UploadCompleted(i) ==
    /\ calls[i].res = NoError
    /\ \E k \in DOMAIN Attached(calls[i].tag) :
          << Attached(calls[i].tag)[k].name >> = calls[i].assets

\* Positions in the history of the requests about tag t.
RequestsOf(t) ==
    { i \in DOMAIN calls : calls[i].side # "local" /\ calls[i].tag = t }

\* C26: the operations are strictly sequential.  When the metadata of an
\* asset is fetched, every earlier content request of the tag has completed
\* and its file is written; when createRelease is sent, every request to
\* the source for the tag has been made and every listed file is staged;
\* when an upload is sent, every earlier upload has completed; when the
\* existence of a tag is checked at the destination, every earlier tag of the processing order
\* was found existing or copied completely, and no request about it follows.
C26_OneAtATime ==
    /\ \A i, j \in DOMAIN calls :
          /\ i < j
          /\ calls[i].tag = calls[j].tag
          /\ calls[i].op = "getReleaseAssetContent"
          /\ calls[j].op \in {"getReleaseAsset", "getReleaseAssetContent",
                               "createRelease"}
          => DownloadCompleted(i)
    /\ \A u \in Uploads :
          /\ \A n \in DOMAIN calls[u].assets :
                calls[u].assets[n] \in DOMAIN staging.files
          /\ \A i \in RequestsOf(calls[u].tag) \ ChecksOf(calls[u].tag) :
                calls[i].side = "source" <=> i < u
    /\ \A i, j \in DOMAIN calls :
          /\ i < j
          /\ calls[i].tag = calls[j].tag
          /\ calls[i].op = "uploadReleaseAsset"
          /\ calls[j].op = "uploadReleaseAsset"
          => UploadCompleted(i)
    /\ CopyAll =>
          \A m, n \in DOMAIN allReleases :
              m < n /\ ChecksOf(allReleases[n]) # {} =>
                  /\ FoundExisting(allReleases[m]) \/ Copied(allReleases[m])
                  /\ \A i \in RequestsOf(allReleases[m]),
                        j \in RequestsOf(allReleases[n]) : i < j

\* In copy-all mode v1.0.0 was copied with its asset, then v2.0.0 with its
\* two assets, and the existence of v3.0.0 has been checked.
C26_Witness ==
    /\ CopyAll
    /\ allReleases = <<V100, V200, V300>>
    /\ Copied(V100)
    /\ Copied(V200)
    /\ Len(Attached(V200)) = 2
    /\ ChecksOf(V300) # {}

\* Positions in the history of the requests of kind op about asset id.
AssetCallsOf(op, id) ==
    { i \in DOMAIN calls : calls[i].op = op /\ calls[i].arg = id }

\* Ids of the assets of the source.
SourceAssetIds ==
    UNION { { source[r].assets[k].id : k \in DOMAIN source[r].assets } :
              r \in DOMAIN source }

\* Tags and names the history mentions.
CalledTags == { calls[i].tag : i \in DOMAIN calls }

CalledNames == { calls[i].assets : i \in DOMAIN calls }

\* C27: no remote operation is retried.  Within one run the source release
\* lookup, the asset listing, the destination existence check and
\* createRelease are each requested at most once per tag, and the metadata
\* request, the content request and the upload at most once per asset; a
\* request that fails, a not-found answer to the existence check apart, is
\* the last request of the run.
C27_NoRetry ==
    /\ \A t \in CalledTags :
          /\ Cardinality(SourceCallsOf("getReleaseByTag", t)) <= 1
          /\ Cardinality(SourceCallsOf("listReleaseAssets", t)) <= 1
          /\ Cardinality(ChecksOf(t)) <= 1
          /\ Cardinality(DestCallsOf("createRelease", t)) <= 1
          /\ \A n \in CalledNames :
                Cardinality({ i \in DestCallsOf("uploadReleaseAsset", t) :
                                calls[i].assets = n }) <= 1
    /\ \A id \in SourceAssetIds :
          /\ Cardinality(AssetCallsOf("getReleaseAsset", id)) <= 1
          /\ Cardinality(AssetCallsOf("getReleaseAssetContent", id)) <= 1
    /\ \A i \in DOMAIN calls :
          /\ calls[i].res # NoError
          /\ ~(IsCheck(calls[i]) /\ calls[i].res.status = 404)
          => i = Len(calls) /\ pc = "rejected"
    /\ \A p \in 1..MaxPages :
          Cardinality({ i \in DOMAIN calls : /\ calls[i].op = "listReleases"
                                             /\ calls[i].arg = p }) <= 1

\* The source answered the asset listing of v1.0.0 with status 500 after
\* v1.0.0 was reported absent from the destination: the run is rejected
\* with one lookup, one listing and one existence check in its history.
C27_Witness ==
    /\ CopyAll
    /\ pc = "rejected"
    /\ error.status = 500
    /\ calls[Len(calls)].op = "listReleaseAssets"
    /\ calls[Len(calls)].tag = V100
    /\ Cardinality(SourceCallsOf("listReleaseAssets", V100)) = 1
    /\ Cardinality(SourceCallsOf("getReleaseByTag", V100)) = 1
    /\ Cardinality(ChecksOf(V100)) = 1

\* The error e carries the content of the error orig of a remote call: the
\* message, as its own or inside its text, the status code and the
\* response payload.
Preserves(e, orig) ==
    /\ e.message = orig.message \/ e.cause = orig.message
    /\ e.status = orig.status
    /\ e.data = orig.data

\* Positions in the history of the remote calls that ended in a fatal
\* error.
FatalCalls ==
    { i \in DOMAIN calls : /\ calls[i].res # NoError
                           /\ ~(IsCheck(calls[i]) /\ calls[i].res.status = 404) }

\* C28 as stated: every fatal remote error reaches the caller of
\* copyRelease, and from there the process boundary, with its message, its
\* numeric status code and its response payload preserved, the errors
\* raised while requesting an asset's content included.
C28_ErrorContentPreserved ==
    \A i \in FatalCalls :
        /\ pc = "rejected"
        /\ Preserves(error, calls[i].res)
        /\ proc.main /\ proc.at = "exited" =>
              /\ proc.reported # Undefined
              /\ Preserves(proc.reported[1], calls[i].res)

\* Ids of the source assets whose name is missing or empty.
NamelessIds ==
    { id \in SourceAssetIds : NameOfAsset(id) = <<>> }

\* The asset listed after the asset with the given id in its release, as a
\* one-element sequence; empty when the asset is the last one.
NextAsset(id) ==
    LET r == CHOOSE r \in DOMAIN source :
                 \E k \in DOMAIN source[r].assets : source[r].assets[k].id = id
        k == CHOOSE k \in DOMAIN source[r].assets : source[r].assets[k].id = id
    IN  IF k < Len(source[r].assets) THEN << source[r].assets[k + 1] >> ELSE <<>>

\* C29: an asset whose resolved name is missing or empty is skipped without
\* failing the download, with a filter and without one: its content is not
\* requested, no file is written for it, it is not in Release.assets, and
\* after its metadata request the download goes on with the next asset of
\* the release, or returns when there is none.
C29_NamelessSkipped ==
    /\ \A id \in NamelessIds : ~ContentRequested(id)
    /\ <<>> \notin DOMAIN staging.files
    /\ \A n \in DOMAIN dl.includedAssets : dl.includedAssets[n] # <<>>
    /\ \A u \in Uploads : \A n \in DOMAIN calls[u].assets : calls[u].assets[n] # <<>>
    /\ \A d \in DOMAIN dest : \A n \in DOMAIN dest[d].assets :
          dest[d].assets[n].name # <<>>
    /\ \A i \in DOMAIN calls :
          /\ calls[i].op = "getReleaseAsset"
          /\ calls[i].arg \in NamelessIds
          /\ calls[i].res = NoError
          => IF NextAsset(calls[i].arg) = <<>>
             THEN /\ i < Len(calls)
                  /\ calls[i + 1].op = "uploadAssets"
                  /\ dl.result # Undefined
             ELSE IF i = Len(calls)
             THEN /\ pc = "fetchAssetDetails"
                  /\ dl.assets[dl.k] = NextAsset(calls[i].arg)[1]
             ELSE /\ calls[i + 1].op = "getReleaseAsset"
                  /\ calls[i + 1].arg = NextAsset(calls[i].arg)[1].id

\* Without a filter, a release whose first asset has no name and whose
\* second is a.z was copied with a.z alone; the content of the first was
\* never requested.
C29_Witness ==
    /\ config.includeAssets = Undefined
    /\ pc = "resolved"
    /\ Len(source) = 1
    /\ Len(source[1].assets) = 2
    /\ source[1].assets[1].name = <<>>
    /\ source[1].assets[2].name = <<"a", ".", "z">>
    /\ ~ContentRequested(source[1].assets[1].id)
    /\ ContentRequested(source[1].assets[2].id)
    /\ Len(Attached(V100)) = 1
    /\ Attached(V100)[1].name = <<"a", ".", "z">>

\* uploadAssets was called on its own with an input directory that is unset
\* or empty.
UploadWithoutDir ==
    /\ proc.at = "uploadAssets"
    /\ ~TruthyDir(config.tempDir)

\* C30: when the staging directory passed to uploadAssets is falsy, the
\* destination release is still created, every asset upload is skipped
\* without reading any file, and the call completes successfully: after
\* createRelease is answered the call has resolved, the release is at the
\* destination with the body and without assets, and only a failure of
\* createRelease rejects the call.
C30_NoDirSkipsUploads ==
    UploadWithoutDir =>
        /\ DestCallsOf("uploadReleaseAsset", tag) = {}
        /\ ~ReadFailed
        /\ pc \in {"createRelease", "resolved", "rejected"}
        /\ pc = "rejected" <=>
              \E c \in DestCallsOf("createRelease", tag) : calls[c].res # NoError
        /\ pc = "resolved" <=> Created(tag)
        /\ Created(tag) =>
              /\ IndexOfTag(dest, tag) = Len(dest)
              /\ dest[Len(dest)].body = ul.release.body
              /\ dest[Len(dest)].assets = <<>>

\* uploadAssets was called with the empty string as directory and the
\* names a.z and b.t, of which the directory on disk holds only a.z: the
\* call resolved, the release is created, nothing is attached.
C30_Witness ==
    /\ UploadWithoutDir
    /\ config.tempDir = Some("")
    /\ ul.release.assets = << <<"a", ".", "z">>, <<"b", ".", "t">> >>
    /\ staging.files # <<>>
    /\ pc = "resolved"
    /\ Len(dest) = 1
    /\ dest[1].tag_name = V100
    /\ dest[1].assets = <<>>

\* downloadAssets was called on its own with an output directory that is
\* unset or empty.
DownloadWithoutDir ==
    /\ proc.at = "downloadAssets"
    /\ ~TruthyDir(config.tempDir)

\* C31 as stated: when the staging directory passed to downloadAssets is
\* falsy, no asset content is requested and no file is written, while the
\* metadata of every asset is fetched and the call returns the body of the
\* release.
C31_NoDirSkipsContent ==
    DownloadWithoutDir =>
        /\ \A i \in DOMAIN calls : calls[i].op # "getReleaseAssetContent"
        /\ staging.files = staging.before.files
        /\ pc = "resolved" =>
              /\ dl.result # Undefined
              /\ dl.result[1].body =
                    (IF ReleaseOfTag(tag).body = Undefined THEN <<>>
                     ELSE ReleaseOfTag(tag).body[1])
              /\ \A k \in DOMAIN ReleaseOfTag(tag).assets :
                    AssetCallsOf("getReleaseAsset", ReleaseOfTag(tag).assets[k].id) # {}

\* An operation of a copy as the history records it, without its outcome
\* and without the identifier the destination gave the created release.
Op(op, side, arg, body, assets) ==
    [op |-> op, side |-> side, arg |-> arg, body |-> body, assets |-> assets]

OpOfCall(c) ==
    Op(c.op, c.side, IF c.op = "uploadReleaseAsset" THEN 0 ELSE c.arg,
       c.body, c.assets)

\* The operations of the copy of tag t in the history, in order: every
\* call about t but the destination existence check.
OpsOf(t) ==
    LET own == SelectSeq(calls, LAMBDA c : c.tag = t /\ ~IsCheck(c))
    IN  [i \in DOMAIN own |-> OpOfCall(own[i])]

\* The requests of downloadAssets for the assets from position k on: the
\* metadata of each, the content of each that has a name the filter asks
\* for.
RECURSIVE AssetOps(_, _)
AssetOps(assets, k) ==
    IF k > Len(assets) THEN <<>>
    ELSE << Op("getReleaseAsset", "source", assets[k].id, <<>>, <<>>) >>
         \o (IF assets[k].name # <<>> /\ Wanted(assets[k].name)
             THEN << Op("getReleaseAssetContent", "source", assets[k].id,
                        <<>>, <<>>) >>
             ELSE <<>>)
         \o AssetOps(assets, k + 1)

\* The body after the transformation the configuration asks for.
TransformedBody(body) ==
    IF RegexValid
    THEN ExpectedBody(body, config.bodyReplaceRegex[1],
                      IF config.bodyReplaceWith = Undefined THEN <<>>
                      ELSE config.bodyReplaceWith[1], TRUE)
    ELSE body

\* The operations of a complete copy of tag t, from the source release and
\* the filter, pattern and replacement of the configuration alone: the
\* download, the transformation, the upload.  The mode is no part of it.
CopyOps(t) ==
    << Op("downloadAssets", "local", 0, <<>>, <<>>),
       Op("getReleaseByTag", "source", 0, <<>>, <<>>) >>
    \o (IF t \notin SourceTags THEN <<>>
        ELSE LET r == ReleaseOfTag(t)
                 body == TransformedBody(IF r.body = Undefined THEN <<>>
                                         ELSE r.body[1])
                 names == IncludedNames(r)
             IN  << Op("listReleaseAssets", "source", 0, <<>>, <<>>) >>
                 \o AssetOps(r.assets, 1)
                 \o << Op("uploadAssets", "local", 0, body, names),
                       Op("createRelease", "dest", 0, body, <<>>) >>
                 \o [n \in DOMAIN names |->
                        Op("uploadReleaseAsset", "dest", 0, <<>>, << names[n] >>)])

IsPrefix(s, t) == Len(s) <= Len(t) /\ s = SubSeq(t, 1, Len(s))

\* C32: the copy of a tag issues the same sequence of download, transform
\* and upload operations, with the same arguments, in single-tag mode and
\* in the copy-all iteration for a tag absent from the destination: in
\* either mode the operations about the tag are the first operations of
\* CopyOps, all of them when the copy has completed, and the only other
\* operations are, in copy-all mode, the release listing and the
\* destination existence checks.
C32_SameCopyInBothModes ==
    /\ \A t \in CalledTags \ {EmptyTag} :
          /\ OpsOf(t) # <<>> => IsPrefix(OpsOf(t), CopyOps(t))
          /\ OpsOf(t) # <<>> /\ UploadReturned(t) => OpsOf(t) = CopyOps(t)
    /\ \A i \in DOMAIN calls :
          \/ calls[i].tag # EmptyTag /\ ~IsCheck(calls[i])
          \/ CopyAll /\ (IsCheck(calls[i]) \/ calls[i].op = "listReleases")

\* Copy-all mode copied v2.0.0 under the filter z, the pattern . and the
\* replacement X with all the operations of CopyOps: one of the two assets
\* downloaded, the body n sent as X.
C32_Witness ==
    /\ CopyAll
    /\ pc = "resolved"
    /\ config.includeAssets = Some(<< <<"z">> >>)
    /\ config.bodyReplaceRegex = Some(<<".">>)
    /\ config.bodyReplaceWith = Some(<<"X">>)
    /\ OpsOf(V200) = CopyOps(V200)
    /\ Len(OpsOf(V200)) = 9
    /\ OpsOf(V200)[8] = Op("createRelease", "dest", 0, <<"X">>, <<>>)
    /\ ChecksOf(V200) # {}

\* Tag t was at the destination before the run: it has more releases of
\* that tag than the run created.
ExistedBefore(t) ==
    Cardinality({ i \in DOMAIN dest : dest[i].tag_name = t }) >
        Cardinality({ c \in DestCallsOf("createRelease", t) : calls[c].res = NoError })

\* The destination refused createRelease for tag t as a duplicate.
RefusedDuplicate(t) ==
    \E c \in DestCallsOf("createRelease", t) : calls[c].res = AlreadyExists

\* C33: single-tag mode makes no destination existence check.  When the
\* tag is at the destination already, the download runs in full as for any
\* tag, the createRelease that follows it is refused by the destination,
\* copyRelease rejects with that refusal, no asset is uploaded and the
\* destination is left as it was; such a run never resolves.
C33_SingleTagNoExistenceCheck ==
    ~CopyAll =>
        /\ \A i \in DOMAIN calls : ~IsCheck(calls[i])
        /\ \A t \in CalledTags :
              ExistedBefore(t) =>
                  /\ pc # "resolved"
                  /\ DestCallsOf("uploadReleaseAsset", t) = {}
                  /\ \A c \in DestCallsOf("createRelease", t) :
                        /\ calls[c].res # NoError
                        /\ calls[c].res \notin Faults => calls[c].res = AlreadyExists
                        /\ c = Len(calls) /\ pc = "rejected" /\ error = calls[c].res
                        /\ OpsOf(t) = SubSeq(CopyOps(t), 1, Len(OpsOf(t)))
                        /\ \A a \in DOMAIN ReleaseOfTag(t).assets :
                              LET asset == ReleaseOfTag(t).assets[a]
                              IN  asset.name # <<>> /\ Wanted(asset.name) =>
                                      /\ ContentRequested(asset.id)
                                      /\ asset.name \in DOMAIN staging.files
                                      /\ staging.files[asset.name] =
                                             ContentOf(t, asset)
                  /\ \A u \in CalledTags : ~Created(u)
                  /\ Attached(t) = <<>>

\* Single-tag mode for v1.0.0, which the destination has: the asset a.z was
\* downloaded and staged, createRelease was refused with 422 and the run
\* was rejected with that answer.
C33_Witness ==
    /\ ~CopyAll
    /\ ExistedBefore(V100)
    /\ RefusedDuplicate(V100)
    /\ ContentRequested(11)
    /\ pc = "rejected"
    /\ error = AlreadyExists

\* The names uploadAssets has asked the destination to attach to tag t, in
\* the order of the requests.
UploadedNames(t) ==
    LET ups == SelectSeq(calls, LAMBDA c : c.op = "uploadReleaseAsset" /\ c.tag = t)
    IN  [i \in DOMAIN ups |-> ups[i].assets[1]]

\* C34: whatever the pattern and the replacement, the names passed to
\* uploadAssets are the names downloadAssets returned, in the same order;
\* and uploadAssets leaves the Release it received as it was: at every
\* point of the upload the Release is the one of the call, and the names
\* sent to the destination are its first names in its order.
C34_TransformChangesBodyOnly ==
    dl.result # Undefined /\ UploadsOf(tag) # {} =>
        /\ ul.release.assets = dl.result[1].assets
        /\ \A u \in UploadsOf(tag) :
              /\ calls[u].assets = dl.result[1].assets
              /\ ul.release = [assets |-> calls[u].assets, body |-> calls[u].body]
        /\ IsPrefix(UploadedNames(tag), dl.result[1].assets)
        /\ pc = "resolved" => UploadedNames(tag) = dl.result[1].assets

\* Two names downloaded for v2.0.0, the body n turned into X by the pattern
\* . and both names uploaded in the order of the download.
C34_Witness ==
    /\ pc = "resolved"
    /\ tag = V200
    /\ RegexValid
    /\ dl.result = Some([assets |-> << <<"a", ".", "z">>, <<"b", ".", "t">> >>,
                         body |-> <<"n">>])
    /\ ul.release.body = <<"X">>
    /\ UploadedNames(V200) = dl.result[1].assets

\* The source asset of tag t with the given name.
AssetNamed(t, name) ==
    CHOOSE a \in { ReleaseOfTag(t).assets[k] : k \in DOMAIN ReleaseOfTag(t).assets } :
        a.name = name

\* C35: with the staging directory reused across tags and runs, every file
\* attached to the destination release of a tag the run copied has the
\* content the download of that tag in the same copy wrote: the bytes of
\* the source asset of that tag with that name, and so never the file an
\* earlier tag or an earlier run left under the same name.
C35_NoStaleUpload ==
    \A t \in CalledTags :
        Created(t) =>
            \A k \in DOMAIN Attached(t) :
                LET file == Attached(t)[k]
                IN  /\ file.content # Stale
                    /\ file.content.tag = t
                    /\ file.name \in { ReleaseOfTag(t).assets[a].name :
                                           a \in DOMAIN ReleaseOfTag(t).assets }
                    /\ file.content = ContentOf(t, AssetNamed(t, file.name))
                    /\ ContentRequested(file.content.id)

\* Copy-all copied v1.0.0 and then v2.0.0, which both have an asset a.z:
\* each destination release has its own a.z.
C35_Witness ==
    /\ CopyAll
    /\ Created(V100)
    /\ Created(V200)
    /\ Len(Attached(V100)) = 1
    /\ Attached(V100)[1] = [name |-> <<"a", ".", "z">>, content |-> [tag |-> V100, id |-> 11]]
    /\ Len(Attached(V200)) >= 1
    /\ Attached(V200)[1] = [name |-> <<"a", ".", "z">>, content |-> [tag |-> V200, id |-> 21]]

\* The destination release of tag t as the call found the destination.
Before(t) == proc.before[IndexOfTag(proc.before, t)]

TagsBefore == { proc.before[i].tag_name : i \in DOMAIN proc.before }

\* C36: copy-all is idempotent after success.  In a call of copyRelease
\* that follows a call that resolved, over the same source, the history
\* holds nothing but the release listing and the existence checks: no
\* download, no createRelease, no uploadReleaseAsset; no check answers
\* not-found; the destination stays as the call found it; and when the call
\* resolves every source tag was found existing.
C36_CopyAllIdempotent ==
    CopyAll /\ proc.run > 1 /\ proc.prev = "resolved" =>
        /\ \A i \in DOMAIN calls :
              /\ calls[i].op = "listReleases" \/ IsCheck(calls[i])
              /\ calls[i].res.status # 404
        /\ Copies = {}
        /\ \A t \in SourceTags : DestWritesOf(t) = {}
        /\ dest = proc.before
        /\ SourceTags \subseteq DestTags
        /\ pc = "resolved" => \A t \in SourceTags : FoundExisting(t)

\* The second call resolved after a first call that copied all three
\* releases: one listing and three existence checks, v2.0.0 with both of
\* its assets at the destination.
C36_Witness ==
    /\ CopyAll
    /\ proc.run = 2
    /\ proc.prev = "resolved"
    /\ pc = "resolved"
    /\ Len(calls) = 4
    /\ Len(dest) = 3
    /\ IndexOfTag(dest, V100) = 1
    /\ Len(Attached(V200)) = 2
    /\ \A t \in SourceTags : FoundExisting(t)

\* The destination release of tag t had, when the call began, fewer assets
\* than the copy of t uploads.
Incomplete(t) ==
    /\ t \in TagsBefore
    /\ t \in SourceTags
    /\ Len(Before(t).assets) < Len(IncludedNames(ReleaseOfTag(t)))

\* C37: a destination release that a failed call left with only some of
\* its assets is skipped by every later call of copy-all: the existence
\* check finds the tag, no download, createRelease or uploadReleaseAsset is
\* made for it, and it has after the call the assets it had before.
C37_PartialReleaseNeverCompleted ==
    CopyAll /\ proc.run > 1 =>
        \A t \in SourceTags :
            Incomplete(t) =>
                /\ \A i \in ChecksOf(t) : calls[i].res.status # 404
                /\ DownloadsOf(t) = {}
                /\ DestWritesOf(t) = {}
                /\ \A i \in DOMAIN calls :
                      calls[i].tag = t => IsCheck(calls[i])
                /\ Attached(t) = Before(t).assets
                /\ Len(Attached(t)) < Len(IncludedNames(ReleaseOfTag(t)))

\* The third call resolved: v2.0.0, created by a call that failed at the
\* upload of b.t, was found existing and still has a.z alone.
C37_Witness ==
    /\ CopyAll
    /\ proc.run = MaxRuns
    /\ pc = "resolved"
    /\ config.includeAssets = Undefined
    /\ Incomplete(V200)
    /\ FoundExisting(V200)
    /\ Len(Attached(V200)) = 1
    /\ Attached(V200)[1].name = <<"a", ".", "z">>

\* The run is over: the promise of copyRelease has settled and, under the
\* main entry, the process has exited.
Terminated ==
    IF proc.main THEN proc.at = "exited" ELSE pc \in {"resolved", "rejected"}

\* A copy-all run makes at most one existence check and at most one copy
\* for each enumerated source release, and no more of either than the
\* releases it has passed in the loop.
OncePerRelease ==
    CopyAll =>
        /\ \A t \in SourceTags :
              /\ Cardinality(ChecksOf(t)) <= 1
              /\ Cardinality(DownloadsOf(t)) <= 1
              /\ Cardinality(UploadsOf(t)) <= 1
        /\ Cardinality(Checks) <= Len(allReleases)
        /\ Cardinality(Checks) <= idx
        /\ idx <= Len(allReleases) + 1
        /\ CalledTags \subseteq SourceTags \cup {EmptyTag}

\* C38: when every call that is awaited returns or fails, every run
\* terminates, in success or in an error, and stays terminated; a copy-all
\* run makes at most one existence check and at most one copy per
\* enumerated source release, and its loop only moves forward: it never
\* goes back to a tag.
C38_Terminates ==
    /\ []OncePerRelease
    /\ [][idx' >= idx /\ (pc \in {"resolved", "rejected"} => pc' = pc)]_vars
    /\ <>[]Terminated

\* Copy-all has resolved after one check and one copy of each of the three
\* releases.
C38_Witness ==
    /\ CopyAll
    /\ ~proc.main
    /\ pc = "resolved"
    /\ Len(allReleases) = 3
    /\ idx = 4
    /\ \A t \in SourceTags :
          Cardinality(ChecksOf(t)) = 1 /\ Cardinality(DownloadsOf(t)) = 1

\* The requests of the run that read the source and those that write the
\* destination.
SourceReads ==
    {"listReleases", "getReleaseByTag", "listReleaseAssets", "getReleaseAsset",
     "getReleaseAssetContent"}

DestWrites == {"createRelease", "uploadReleaseAsset"}

\* Every request went to the side its operation belongs to.  The side of a
\* request is the credential and the owner/repo it was issued with: the
\* source's (sourceApiKey, sourceOwner, sourceRepo) or the destination's
\* (destApiKey, destOwner, destRepo).
SidesKept ==
    \A i \in DOMAIN calls :
        LET c == calls[i]
        IN  /\ c.op \in DestWrites => c.side = "dest"
            /\ c.op \in SourceReads \ {"getReleaseByTag"} => c.side = "source"
            /\ c.side = "source" => c.op \in SourceReads
            /\ c.side = "dest" => c.op \in DestWrites \/ IsCheck(c)
            /\ IsCheck(c) =>
                  /\ CopyAll
                  /\ \A j \in DOMAIN calls : calls[j].tag = c.tag => i <= j
            /\ c.op = "getReleaseByTag" /\ c.side = "source" =>
                  /\ i > 1
                  /\ calls[i - 1].op = "downloadAssets"
                  /\ calls[i - 1].tag = c.tag

\* C39: the source repository is only read and the credentials are never
\* crossed: createRelease and uploadReleaseAsset go to the destination
\* only, the only read of the destination is the existence check of
\* copy-all mode, the release listing, the release lookup, the asset
\* listing, the asset metadata and the asset content are requested from the
\* source only, and no step changes the source.
C39_SidesNeverCrossed ==
    /\ []SidesKept
    /\ [][source' = source]_vars

\* Copy-all has copied v2.0.0: the history holds the listing, the check,
\* the source lookup, the asset listing, metadata and content requests and
\* the two destination writes.
C39_Witness ==
    /\ CopyAll
    /\ pc = "resolved"
    /\ Created(V200)
    /\ SourceReads \cup DestWrites \subseteq { calls[i].op : i \in DOMAIN calls }
    /\ \E i \in Checks : calls[i].tag = V200
    /\ Len(Attached(V200)) >= 1

\* The tags of the existence checks of the run, in the order of the checks.
CheckedTags ==
    LET cs == SelectSeq(calls, IsCheck)
    IN  [i \in DOMAIN cs |-> cs[i].tag]

\* How often tag t is in the sequence of tags ts.
Count(ts, t) == Cardinality({ i \in DOMAIN ts : ts[i] = t })

\* The tag as semver.coerce would write it: major.minor.patch alone.
CoercedTag(t) == Tag("", Coerce(t), "")

\* C40: in copy-all mode every tag of an existence check, of a source
\* lookup and of a created destination release is the tag of a source
\* release as the source wrote it, never the coerced version of one (v1.0
\* is copied as v1.0, not as 1.0.0); and the processing order is a
\* permutation of the enumerated source tags, none dropped and none
\* duplicated, which the existence checks follow from its start.
C40_OriginalTagsPermuted ==
    CopyAll =>
        /\ CalledTags \subseteq SourceTags \cup {EmptyTag}
        /\ \A i \in DOMAIN calls :
              calls[i].op \in {"getReleaseByTag", "createRelease"} =>
                  /\ calls[i].tag \in SourceTags
                  /\ \A t \in SourceTags :
                        Coerce(t) # NullVersion /\ CoercedTag(t) \notin SourceTags =>
                            calls[i].tag # CoercedTag(t)
        /\ \A t \in CalledTags : Created(t) => t \in SourceTags /\ t \in DestTags
        /\ idx >= 1 =>
              /\ Len(allReleases) = Len(source)
              /\ \A t \in SourceTags :
                    Count(allReleases, t) = Count(TagNames(source), t)
              /\ \A i \in DOMAIN allReleases : allReleases[i] \in SourceTags
              /\ IsPrefix(CheckedTags, allReleases)

\* Copy-all has copied the release tagged v1.0: the destination holds v1.0
\* and no 1.0.0.
C40_Witness ==
    /\ CopyAll
    /\ pc = "resolved"
    /\ Len(source) >= 2
    /\ Created(Tag("v", <<1, 0>>, ""))
    /\ Tag("v", <<1, 0>>, "") \in DestTags
    /\ Tag("", <<1, 0, 0>>, "") \notin DestTags
    /\ \E i \in DOMAIN calls :
          /\ calls[i].op = "getReleaseByTag"
          /\ calls[i].side = "source"
          /\ calls[i].tag = Tag("v", <<1, 0>>, "")
    /\ CheckedTags = allReleases

====
